---- MODULE Spec2Model ----
(***************************************************************************)
(* A model of the offline cache engine of czech-file-knife (crate          *)
(* cfk-cache): the content-addressed blob store (blob_store.rs) and the    *)
(* metadata cache (metadata_cache.rs, with the path type of cfk-core).     *)
(*                                                                         *)
(* Byte strings are sequences of naturals ("cells").  The file system of   *)
(* the store directory is a function from the paths that exist to the      *)
(* contents of the file there.                                             *)
(***************************************************************************)
EXTENDS Integers, Sequences, FiniteSets, TLC

VARIABLES
    cfg,     \* BlobStoreConfig of the open store: compress, compress_threshold, verify_on_read
    fs,      \* the store directory: path |-> bytes of the file, for the paths that exist
    last,    \* the call that returned last, with its arguments and its result
    faults,  \* how many times the environment has altered a stored file
    procs,   \* the callers of a concurrent put: where each is in put, its open file and offset
    db,      \* the sled tree of the metadata cache: key |-> stored value
    mem,     \* the memory LRU of the metadata cache
    now,     \* the wall clock (Utc::now), in seconds
    pol,     \* the CachePolicy: its config, the entries it tracks, its total_size
    writers, \* the BlobWriters: where each is, its hasher, its temp file, its offset
    tasks    \* the callers of a concurrent delete or gc: where each is in its call

blobVars == <<cfg, fs, faults, procs>>
metaVars == <<db, mem, now>>
policyVars == <<pol>>
writerVars == <<writers>>
taskVars == <<tasks>>
\* the operation called last comes first: two states that differ in it differ
\* in the first component, whatever the argument and the result are
vars == <<last.op, cfg, fs, last, faults, procs, db, mem, now, pol, writers, tasks>>

(***************************************************************************)
(* Bounds of the model.                                                    *)
(***************************************************************************)
\* longest body handed to put in the round-trip specification
MaxLen == 4
\* how many times a stored file is altered behind the store's back
MaxFaults == 1

\* the last second of the wall clock
MaxTime == 2
\* MetadataCacheConfig.default_ttl, in seconds
DefaultTtl == 1
\* the capacity MetadataCache::new gives the memory LRU (10000 in the code)
MemCapacity == 2
\* MetadataCacheConfig.max_entries of the cache that is open, a budget below
\* that capacity
MaxMemoryEntries == 1
\* the ttl_secs handed to put_entry_with_ttl
CustomTtls == {0}

\* PolicyConfig.max_size and PolicyConfig.max_entries of the policy specification
PolicyMaxSize == 3
PolicyMaxEntries == 1
\* the largest total_size the policy specification lets record_add reach
MaxTotalSize == 6
\* the largest access_count the policy specification lets record_access reach
MaxAccessCount == 2
\* the total_size TieredPolicy::new is given, and how many entries of the
\* size being added a tier is let to count
TieredTotalSize == 10
TierMaxAdds == 1
\* the largest retry_after_secs of a RateLimited error
MaxRetryAfter == 1
\* the longest path string given to new and join, and the most segments of a path
MaxPathLen == 2
MaxSegments == 2
\* the sizes of the entries handed to record_add
PolicySizes == {1, 2}

\* the byte values bodies are drawn from
InputBytes == {0, 1}
\* the byte values a damaged cell may take
CorruptValues == {0, 1, 2}

RECURSIVE SeqsUpTo(_, _)
SeqsUpTo(S, n) ==
    IF n = 0 THEN {<< >>}
    ELSE LET shorter == SeqsUpTo(S, n - 1)
         IN  shorter \cup {Append(s, x) : s \in {t \in shorter : Len(t) = n - 1}, x \in S}

\* every body of at most MaxLen bytes
Bodies == SeqsUpTo(InputBytes, MaxLen)

\* the bodies the stateful store specification works with: one that LZ4
\* shrinks, one that it does not, and one below the threshold, whose raw bytes
\* are themselves a well-formed size-prepended stream
StoreBodies == {<<0, 0, 0, 0>>, <<0, 1, 0, 1>>, <<0, 0>>}

Thresholds == 0 .. (MaxLen + 1)
Configs == [compress : BOOLEAN, compress_threshold : Thresholds, verify_on_read : BOOLEAN]
\* the configurations of the stateful store specification: a threshold that
\* lets the longer bodies be compressed, and one above every body
StoreConfigs == [compress : BOOLEAN, compress_threshold : {3, 5}, verify_on_read : BOOLEAN]

(***************************************************************************)
(* Results (CacheResult<T>).                                               *)
(***************************************************************************)
Ok(v) == [tag |-> "Ok", val |-> v]
Err(kind, what) == [tag |-> kind, val |-> what]
NotFound(cid) == Err("NotFound", cid)
CorruptedContent(cid) == Err("CorruptedContent", cid)
IoError == Err("Io", "io")

(***************************************************************************)
(* lz4_flex, size-prepended block format, scaled to short bodies.          *)
(* A stream is <<n, token>> \o literals: n is the uncompressed length      *)
(* (the 4-byte little-endian prefix of the real format, one cell here);    *)
(* token 0 is a sequence of literals only, token 1 is one literal followed *)
(* by a match that repeats it up to n bytes.                               *)
(***************************************************************************)
IsRun(data) == Len(data) >= 2 /\ \A i \in 1 .. Len(data) : data[i] = data[1]

compress_prepend_size(data) ==
    IF IsRun(data) THEN <<Len(data), 1, data[1]>>
    ELSE <<Len(data), 0>> \o data

\* Ok(bytes), or an error for input that is no well-formed stream
decompress_size_prepended(input) ==
    IF Len(input) < 2 THEN Err("Decompress", "short")
    ELSE LET n == input[1]
             token == input[2]
             rest == SubSeq(input, 3, Len(input))
         IN  CASE token = 0 /\ Len(rest) = n -> Ok(rest)
               [] token = 1 /\ Len(rest) = 1 /\ n >= 1 -> Ok([i \in 1 .. n |-> rest[1]])
               [] OTHER -> Err("Decompress", "malformed")

(***************************************************************************)
(* ContentId.  BLAKE3 is taken to be collision free: the id of a body is   *)
(* the body under a constructor.  A path of the store directory is the id  *)
(* (the 2-character shard directory and the 62-character file name make up *)
(* its hex form) and the extension of the file name.                       *)
(***************************************************************************)
hash(data) == [blake3 |-> data]

storage_path(content_id) == [cid |-> content_id, ext |-> ""]

with_extension_tmp(path) == [path EXCEPT !.ext = "tmp"]

\* ContentId::from_hex of shard name \o file name: only a name without an
\* extension has the 64 characters of an id
from_hex(path) == IF path.ext = "" THEN Ok(path.cid) ELSE Err("InvalidContentId", path)

(***************************************************************************)
(* The file system.                                                        *)
(***************************************************************************)
EmptyFs == [p \in {} |-> << >>]

path_exists(f, p) == p \in DOMAIN f

write_file(f, p, data) == [q \in DOMAIN f \cup {p} |-> IF q = p THEN data ELSE f[q]]

remove_file(f, p) == [q \in DOMAIN f \ {p} |-> f[q]]

rename(f, from, to) ==
    [q \in (DOMAIN f \ {from}) \cup {to} |-> IF q = to THEN f[from] ELSE f[q]]

(***************************************************************************)
(* BlobStore, each call taken as a whole (one caller at a time).           *)
(***************************************************************************)
\* the storage form put chooses for a body
stored_data(c, data) ==
    IF c.compress /\ Len(data) >= c.compress_threshold
    THEN LET compressed == compress_prepend_size(data)
         IN  IF Len(compressed) < Len(data) THEN compressed ELSE data
    ELSE data

\* put with the check for an existing object left out
put_rewrite(f, c, data) ==
    LET path == storage_path(hash(data))
        temp_path == with_extension_tmp(path)
    IN  rename(write_file(f, temp_path, stored_data(c, data)), temp_path, path)

\* the store directory after put(data) has returned
put(f, c, data) ==
    LET path == storage_path(hash(data))
        temp_path == with_extension_tmp(path)
    IN  IF path_exists(f, path) THEN f
        ELSE rename(write_file(f, temp_path, stored_data(c, data)), temp_path, path)

\* "Try to decompress": the decoded bytes, or the bytes as they are
try_decompress(data) ==
    LET d == decompress_size_prepended(data)
    IN  IF d.tag = "Ok" THEN d.val ELSE data

\* get with the verification left out
get_unverified(f, c, content_id) ==
    LET path == storage_path(content_id)
    IN  IF ~path_exists(f, path) THEN NotFound(content_id)
        ELSE Ok(try_decompress(f[path]))

get(f, c, content_id) ==
    LET path == storage_path(content_id)
    IN  IF ~path_exists(f, path) THEN NotFound(content_id)
        ELSE LET decompressed == try_decompress(f[path])
             IN  IF c.verify_on_read /\ hash(decompressed) # content_id
                 THEN CorruptedContent(content_id)
                 ELSE Ok(decompressed)

exists(f, content_id) == path_exists(f, storage_path(content_id))

\* delete that removes the temp file of the id instead of its object
delete_temp(f, content_id) ==
    LET path == with_extension_tmp(storage_path(content_id))
    IN  IF path_exists(f, path) THEN remove_file(f, path) ELSE f

delete(f, content_id) ==
    LET path == storage_path(content_id)
    IN  IF path_exists(f, path) THEN remove_file(f, path) ELSE f

size(f, content_id) ==
    LET path == storage_path(content_id)
    IN  IF path_exists(f, path) THEN Ok(Len(f[path])) ELSE IoError

list(f) == {from_hex(p).val : p \in {q \in DOMAIN f : from_hex(q).tag = "Ok"}}

\* the files total_size visits: every file of every directory under the
\* root (the object files and the <name>.tmp files of put); an upload_<tag>
\* file lies in the root itself, where only directories are entered
in_shard(p) == p.ext # "upload"

RECURSIVE sum_len(_, _)
sum_len(f, paths) ==
    IF paths = {} THEN 0
    ELSE LET p == CHOOSE x \in paths : TRUE
         IN  Len(f[p]) + sum_len(f, paths \ {p})

total_size(f) == Ok(sum_len(f, {p \in DOMAIN f : in_shard(p)}))

\* gc walks the ids list() returned; [fs, freed] after the ids in `ids`
RECURSIVE gc_loop(_, _, _, _)
gc_loop(f, ids, keep, freed) ==
    IF ids = {} THEN [fs |-> f, freed |-> freed]
    ELSE LET id == CHOOSE x \in ids : TRUE
         IN  IF id \in keep THEN gc_loop(f, ids \ {id}, keep, freed)
             ELSE LET s == size(f, id)
                  IN  gc_loop(delete(f, id), ids \ {id}, keep,
                              IF s.tag = "Ok" THEN freed + s.val ELSE freed)

\* gc with the test of the keep set inverted
gc_inverted(f, keep) == gc_loop(f, list(f), list(f) \ keep, 0)

gc(f, keep) == gc_loop(f, list(f), keep, 0)

(***************************************************************************)
(* VirtualPath (cfk-core).  Strings are sequences of characters.           *)
(***************************************************************************)
None == [some |-> FALSE]
Some(v) == [some |-> TRUE, val |-> v]

starts_with(s, prefix) == Len(s) >= Len(prefix) /\ SubSeq(s, 1, Len(prefix)) = prefix

\* path.split('/').filter(|s| !s.is_empty()): the segments of `s`, `cur` being
\* the segment under way
RECURSIVE split_segments(_, _)
split_segments(s, cur) ==
    LET done == IF cur = << >> THEN << >> ELSE <<cur>>
    IN  IF s = << >> THEN done
        ELSE IF Head(s) = "/" THEN done \o split_segments(Tail(s), << >>)
        ELSE split_segments(Tail(s), Append(cur, Head(s)))

VirtualPath_new(backend, path) ==
    [backend |-> backend, segments |-> split_segments(path, << >>)]

root(backend) == [backend |-> backend, segments |-> << >>]

\* Vec::pop: the last element goes, if there is one
pop(segments) ==
    IF segments = << >> THEN << >> ELSE SubSeq(segments, 1, Len(segments) - 1)

\* the loop of join over the parts of the name
RECURSIVE join_parts(_, _)
join_parts(segments, parts) ==
    IF parts = << >> THEN segments
    ELSE LET part == Head(parts)
             next == IF part = <<".", ".">> THEN pop(segments)
                     ELSE IF part # <<".">> THEN Append(segments, part)
                     ELSE segments
         IN  join_parts(next, Tail(parts))

join(vp, name) ==
    [backend |-> vp.backend,
     segments |-> join_parts(vp.segments, split_segments(name, << >>))]

parent(vp) ==
    IF vp.segments = << >> THEN None
    ELSE Some([backend |-> vp.backend, segments |-> pop(vp.segments)])

\* segments.join("/")
RECURSIVE join_segments(_)
join_segments(segments) ==
    IF segments = << >> THEN << >>
    ELSE IF Len(segments) = 1 THEN segments[1]
    ELSE segments[1] \o <<"/">> \o join_segments(Tail(segments))

\* to_path_string that writes the first segment only
to_path_string_first(vp) ==
    IF vp.segments = << >> THEN <<"/">> ELSE <<"/">> \o vp.segments[1]

to_path_string(vp) ==
    IF vp.segments = << >> THEN <<"/">> ELSE <<"/">> \o join_segments(vp.segments)

Scheme == <<"c", "f", "k", ":", "/", "/">>

to_uri(vp) == Scheme \o vp.backend \o to_path_string(vp)

\* Display for VirtualPath
to_string(vp) == to_uri(vp)

\* uri.split_once('/'): the parts before and after the first '/'
split_once(s) ==
    IF \E i \in 1 .. Len(s) : s[i] = "/"
    THEN LET i == CHOOSE j \in 1 .. Len(s) : s[j] = "/" /\ \A k \in 1 .. (j - 1) : s[k] # "/"
         IN  Some(<<SubSeq(s, 1, i - 1), SubSeq(s, i + 1, Len(s))>>)
    ELSE None

parse_uri(uri) ==
    IF ~starts_with(uri, Scheme) THEN None
    ELSE LET rest == SubSeq(uri, Len(Scheme) + 1, Len(uri))
             parts == split_once(rest)
         IN  IF parts.some THEN Some(VirtualPath_new(parts.val[1], parts.val[2]))
             ELSE Some(VirtualPath_new(rest, << >>))

(***************************************************************************)
(* CachedEntry and CachedDirectory.                                        *)
(***************************************************************************)
CachedEntryKind_from(kind) ==
    CASE kind = "EntryKind::File" -> "CachedEntryKind::File"
      [] kind = "EntryKind::Directory" -> "CachedEntryKind::Directory"
      [] kind = "EntryKind::Symlink" -> "CachedEntryKind::Symlink"
      [] OTHER -> "CachedEntryKind::Unknown"

EntryKind_from(kind) ==
    CASE kind = "CachedEntryKind::File" -> "EntryKind::File"
      [] kind = "CachedEntryKind::Directory" -> "EntryKind::Directory"
      [] kind = "CachedEntryKind::Symlink" -> "EntryKind::Symlink"
      [] OTHER -> "EntryKind::Unknown"

\* CachedEntry::from_entry at wall-clock time t
from_entry(entry, ttl_secs, t) ==
    [path |-> to_string(entry.path),
     backend_id |-> entry.path.backend,
     kind |-> CachedEntryKind_from(entry.kind),
     cached_at |-> t,
     expires_at |-> IF ttl_secs.some THEN Some(t + ttl_secs.val) ELSE None]

to_entry(cached) ==
    LET parsed == parse_uri(cached.path)
    IN  [path |-> IF parsed.some THEN parsed.val
                  ELSE VirtualPath_new(cached.backend_id, cached.path),
         kind |-> EntryKind_from(cached.kind)]

\* is_expired with the comparison turned round
is_expired_reversed(record, t) ==
    IF record.expires_at.some THEN record.expires_at.val > t ELSE FALSE

\* CachedEntry::is_expired and CachedDirectory::is_expired at wall-clock time t
is_expired(record, t) ==
    IF record.expires_at.some THEN t > record.expires_at.val ELSE FALSE

CachedDirectory_new(path, children, ttl_secs, t) ==
    [path |-> to_string(path),
     backend_id |-> path.backend,
     children |-> children,
     cached_at |-> t,
     expires_at |-> IF ttl_secs.some THEN Some(t + ttl_secs.val) ELSE None]

\* serde_json: the stored value is the record under its encoding
to_vec(record) == [json |-> record]
from_slice(value) == value.json

(***************************************************************************)
(* mod lru: LruCache, `order` from the least to the most recently used.    *)
(***************************************************************************)
retain_not(order, key) == SelectSeq(order, LAMBDA k : k # key)

map_insert(map, key, value) ==
    [k \in DOMAIN map \cup {key} |-> IF k = key THEN value ELSE map[k]]

map_remove(map, key) == [k \in DOMAIN map \ {key} |-> map[k]]

EmptyMap == [k \in {} |-> None]

LruCache_new(capacity) == [map |-> EmptyMap, order |-> << >>, capacity |-> capacity]

\* get: the cache afterwards and the value found
lru_get(cache, key) ==
    IF key \in DOMAIN cache.map
    THEN [cache |-> [cache EXCEPT !.order = Append(retain_not(cache.order, key), key)],
          val |-> Some(cache.map[key])]
    ELSE [cache |-> cache, val |-> None]

lru_put(cache, key, value) ==
    LET c1 == IF key \in DOMAIN cache.map
              THEN [cache EXCEPT !.order = retain_not(cache.order, key)]
              ELSE IF Cardinality(DOMAIN cache.map) >= cache.capacity /\ cache.order # << >>
              THEN [cache EXCEPT !.map = map_remove(cache.map, Head(cache.order)),
                                 !.order = Tail(cache.order)]
              ELSE cache
    IN  [c1 EXCEPT !.map = map_insert(c1.map, key, value), !.order = Append(c1.order, key)]

lru_pop(cache, key) ==
    [cache EXCEPT !.map = map_remove(cache.map, key), !.order = retain_not(cache.order, key)]

lru_clear(cache) == [cache EXCEPT !.map = EmptyMap, !.order = << >>]

(***************************************************************************)
(* MetadataCache.  A state `st` is [db, mem]: the sled tree and the memory *)
(* LRU.  Every call is given the wall-clock time `t` it runs at and yields *)
(* the state afterwards and its result.                                    *)
(***************************************************************************)
EntryPrefix == <<"e", "n", "t", "r", "y", ":">>
DirPrefix == <<"d", "i", "r", ":">>

entry_key(key) == EntryPrefix \o key
dir_key(path) == DirPrefix \o to_string(path)

scan_prefix(tree, prefix) == {k \in DOMAIN tree : starts_with(k, prefix)}

RECURSIVE remove_keys(_, _)
remove_keys(tree, keys) ==
    IF keys = {} THEN tree
    ELSE LET k == CHOOSE x \in keys : TRUE
         IN  remove_keys(map_remove(tree, k), keys \ {k})

put_entry_with_ttl(st, t, entry, ttl_secs) ==
    LET cached == from_entry(entry, Some(ttl_secs), t)
        key == to_string(entry.path)
    IN  [db |-> map_insert(st.db, entry_key(key), to_vec(cached)),
         mem |-> lru_put(st.mem, key, cached),
         res |-> Ok("unit")]

put_entry(st, t, entry) ==
    LET cached == from_entry(entry, Some(DefaultTtl), t)
        key == to_string(entry.path)
    IN  [db |-> map_insert(st.db, entry_key(key), to_vec(cached)),
         mem |-> lru_put(st.mem, key, cached),
         res |-> Ok("unit")]

get_entry(st, t, path) ==
    LET key == to_string(path)
        hit == lru_get(st.mem, key)
        db_key == entry_key(key)
    IN  IF hit.val.some /\ ~is_expired(hit.val.val, t)
        THEN [db |-> st.db, mem |-> hit.cache, res |-> Ok(Some(hit.val.val))]
        ELSE IF db_key \in DOMAIN st.db
        THEN LET cached == from_slice(st.db[db_key])
             IN  IF is_expired(cached, t)
                 THEN [db |-> map_remove(st.db, db_key), mem |-> hit.cache, res |-> Ok(None)]
                 ELSE [db |-> st.db, mem |-> lru_put(hit.cache, key, cached),
                       res |-> Ok(Some(cached))]
        ELSE [db |-> st.db, mem |-> hit.cache, res |-> Ok(None)]

\* "Also cache individual entries"
RECURSIVE put_entries(_, _, _)
put_entries(st, t, entries) ==
    IF entries = << >> THEN [db |-> st.db, mem |-> st.mem, res |-> Ok("unit")]
    ELSE put_entries(put_entry(st, t, Head(entries)), t, Tail(entries))

\* put_directory that stores the listing and not the entries of the children
put_directory_listing_only(st, t, path, entries) ==
    LET children == [i \in 1 .. Len(entries) |-> to_string(entries[i].path)]
        cached == CachedDirectory_new(path, children, Some(DefaultTtl), t)
    IN  [db |-> map_insert(st.db, dir_key(path), to_vec(cached)), mem |-> st.mem,
         res |-> Ok("unit")]

put_directory(st, t, path, entries) ==
    LET children == [i \in 1 .. Len(entries) |-> to_string(entries[i].path)]
        cached == CachedDirectory_new(path, children, Some(DefaultTtl), t)
    IN  put_entries([db |-> map_insert(st.db, dir_key(path), to_vec(cached)), mem |-> st.mem],
                    t, entries)

\* "Fetch individual entries": the state afterwards and the entries found
RECURSIVE fetch_children(_, _, _, _)
fetch_children(st, t, backend_id, children) ==
    IF children = << >> THEN [db |-> st.db, mem |-> st.mem, entries |-> << >>]
    ELSE LET parsed == parse_uri(Head(children))
             virtual_path == IF parsed.some THEN parsed.val
                             ELSE VirtualPath_new(backend_id, Head(children))
             r == get_entry(st, t, virtual_path)
             rest == fetch_children(r, t, backend_id, Tail(children))
         IN  [db |-> rest.db, mem |-> rest.mem,
              entries |-> (IF r.res.val.some THEN <<to_entry(r.res.val.val)>> ELSE << >>)
                              \o rest.entries]

get_directory(st, t, path) ==
    LET key == dir_key(path)
    IN  IF key \in DOMAIN st.db
        THEN LET cached == from_slice(st.db[key])
             IN  IF is_expired(cached, t)
                 THEN [db |-> map_remove(st.db, key), mem |-> st.mem, res |-> Ok(None)]
                 ELSE LET r == fetch_children(st, t, cached.backend_id, cached.children)
                      IN  [db |-> r.db, mem |-> r.mem, res |-> Ok(Some(r.entries))]
        ELSE [db |-> st.db, mem |-> st.mem, res |-> Ok(None)]

\* invalidate with the memory tier left out
invalidate_db_only(st, path) ==
    [db |-> map_remove(st.db, entry_key(to_string(path))), mem |-> st.mem, res |-> Ok("unit")]

invalidate(st, path) ==
    LET key == to_string(path)
    IN  [db |-> map_remove(st.db, entry_key(key)),
         mem |-> lru_pop(st.mem, key),
         res |-> Ok("unit")]

invalidate_directory(st, path) ==
    LET prefix == EntryPrefix \o to_string(path) \o <<":">>
        db1 == remove_keys(st.db, scan_prefix(st.db, prefix))
    IN  [db |-> map_remove(db1, dir_key(path)), mem |-> st.mem, res |-> Ok("unit")]

clear_backend(st, backend_id) ==
    LET prefix == EntryPrefix \o backend_id \o <<":">>
        db1 == remove_keys(st.db, scan_prefix(st.db, prefix))
        dir_prefix == DirPrefix \o backend_id \o <<":">>
        db2 == remove_keys(db1, scan_prefix(db1, dir_prefix))
    IN  [db |-> db2, mem |-> lru_clear(st.mem), res |-> Ok("unit")]

\* the keys under `prefix` whose record is expired at time t
expired_keys(tree, prefix, t) ==
    {k \in scan_prefix(tree, prefix) : is_expired(from_slice(tree[k]), t)}

\* prune_expired without the scan of the dir: records
prune_expired_entries_only(st, t) ==
    LET entries == expired_keys(st.db, EntryPrefix, t)
    IN  [db |-> remove_keys(st.db, entries), mem |-> st.mem,
         res |-> Ok(Cardinality(entries))]

prune_expired(st, t) ==
    LET entries == expired_keys(st.db, EntryPrefix, t)
        db1 == remove_keys(st.db, entries)
        dirs == expired_keys(db1, DirPrefix, t)
    IN  [db |-> remove_keys(db1, dirs), mem |-> st.mem,
         res |-> Ok(Cardinality(entries) + Cardinality(dirs))]

(***************************************************************************)
(* CachePolicy.  target_utilization is the fraction num/den; the HashMap   *)
(* of entries is a function, and `values` is the order its values() are    *)
(* iterated in.                                                            *)
(***************************************************************************)
CacheEntryInfo_new(content_id, nbytes, t) ==
    [content_id |-> content_id, size |-> nbytes, last_accessed |-> t,
     access_count |-> 1, created |-> t, priority |-> 0]

touch(info, t) ==
    [info EXCEPT !.last_accessed = t, !.access_count = info.access_count + 1]

CachePolicy_new(config) == [config |-> config, entries |-> EmptyMap, total_size |-> 0]

saturating_sub(a, b) == IF a >= b THEN a - b ELSE 0

record_add(p, info) ==
    [p EXCEPT !.total_size = p.total_size + info.size,
              !.entries = map_insert(p.entries, info.content_id, info)]

record_access(p, content_id, t) ==
    IF content_id \in DOMAIN p.entries
    THEN [p EXCEPT !.entries[content_id] = touch(p.entries[content_id], t)]
    ELSE p

record_remove(p, content_id) ==
    IF content_id \in DOMAIN p.entries
    THEN [p EXCEPT !.entries = map_remove(p.entries, content_id),
                   !.total_size = saturating_sub(p.total_size, p.entries[content_id].size)]
    ELSE p

needs_eviction(p) ==
    p.total_size > p.config.max_size \/ Cardinality(DOMAIN p.entries) > p.config.max_entries

\* (max as f64 * target_utilization) as u64
target_of(max, target_utilization) == (max * target_utilization.num) \div target_utilization.den

\* the filter with min_ttl left out
is_candidate_any(p, info, t) == TRUE

\* age >= min_ttl, the age being the whole seconds since `created`
is_candidate(p, info, t) == t - info.created >= p.config.min_ttl

\* adaptive_score for entries of priority 0 last accessed less than an hour
\* ago: access_count - ln(size) / 10.  With sizes whose logarithms differ by
\* less than 10 the access_count decides, then the larger size scores lower.
adaptive_less(a, b) ==
    \/ a.access_count < b.access_count
    \/ a.access_count = b.access_count /\ a.size > b.size

\* the comparators with LargestFirst comparing as SmallestFirst does
policy_less_ascending(policy, a, b) ==
    CASE policy = "Lru" -> a.last_accessed < b.last_accessed
      [] policy = "Lfu" -> a.access_count < b.access_count
      [] policy = "Fifo" -> a.created < b.created
      [] policy = "LargestFirst" -> a.size < b.size
      [] policy = "SmallestFirst" -> a.size < b.size
      [] policy = "Adaptive" -> adaptive_less(a, b)

\* Ordering::Less of the comparator handed to sort_by
policy_less(policy, a, b) ==
    CASE policy = "Lru" -> a.last_accessed < b.last_accessed
      [] policy = "Lfu" -> a.access_count < b.access_count
      [] policy = "Fifo" -> a.created < b.created
      [] policy = "LargestFirst" -> b.size < a.size
      [] policy = "SmallestFirst" -> a.size < b.size
      [] policy = "Adaptive" -> adaptive_less(a, b)

\* insert `x` into the sorted `sorted`, after the elements it is not less than
RECURSIVE insert_sorted(_, _, _)
insert_sorted(policy, sorted, x) ==
    IF sorted = << >> THEN <<x>>
    ELSE IF policy_less(policy, x, Head(sorted)) THEN <<x>> \o sorted
    ELSE <<Head(sorted)>> \o insert_sorted(policy, Tail(sorted), x)

\* slice::sort_by, a stable sort
RECURSIVE sort_by(_, _)
sort_by(policy, candidates) ==
    IF candidates = << >> THEN << >>
    ELSE insert_sorted(policy, sort_by(policy, SubSeq(candidates, 1, Len(candidates) - 1)),
                       candidates[Len(candidates)])

\* "Select entries to evict"
RECURSIVE select_loop(_, _, _, _, _)
select_loop(candidates, size_to_free, entries_to_free, evicted, size_freed) ==
    IF candidates = << >> THEN [evicted |-> evicted, size_freed |-> size_freed]
    ELSE IF size_freed >= size_to_free /\ Len(evicted) >= entries_to_free
    THEN [evicted |-> evicted, size_freed |-> size_freed]
    ELSE select_loop(Tail(candidates), size_to_free, entries_to_free,
                     Append(evicted, Head(candidates).content_id),
                     size_freed + Head(candidates).size)

\* select_evictions freeing the whole of total_size
select_evictions_everything(p, t, values) ==
    IF ~needs_eviction(p) THEN [evicted |-> << >>, size_freed |-> 0, count |-> 0]
    ELSE LET candidates == SelectSeq(values, LAMBDA e : is_candidate(p, e, t))
             r == select_loop(sort_by(p.config.policy, candidates),
                              p.total_size, Cardinality(DOMAIN p.entries), << >>, 0)
         IN  [evicted |-> r.evicted, size_freed |-> r.size_freed, count |-> Len(r.evicted)]

select_evictions(p, t, values) ==
    IF ~needs_eviction(p) THEN [evicted |-> << >>, size_freed |-> 0, count |-> 0]
    ELSE LET target_size == target_of(p.config.max_size, p.config.target_utilization)
             size_to_free == saturating_sub(p.total_size, target_size)
             target_entries == target_of(p.config.max_entries, p.config.target_utilization)
             entries_to_free == saturating_sub(Cardinality(DOMAIN p.entries), target_entries)
             candidates == SelectSeq(values, LAMBDA e : is_candidate(p, e, t))
             r == select_loop(sort_by(p.config.policy, candidates),
                              size_to_free, entries_to_free, << >>, 0)
         IN  [evicted |-> r.evicted, size_freed |-> r.size_freed, count |-> Len(r.evicted)]

(***************************************************************************)
(* TieredPolicy: three CachePolicies, an entry going to the tier that      *)
(* determine_tier names.                                                   *)
(***************************************************************************)
\* PolicyConfig::default(): target_utilization 0.9, min_ttl 60
TierConfig(max_size, max_entries, policy) ==
    [max_size |-> max_size, max_entries |-> max_entries, policy |-> policy,
     target_utilization |-> [num |-> 9, den |-> 10], min_ttl |-> 60]

TieredPolicy_new(total) ==
    [hot_tier |-> CachePolicy_new(TierConfig(total \div 10, 10000, "Lfu")),
     warm_tier |-> CachePolicy_new(TierConfig((total * 3) \div 10, 50000, "Lru")),
     cold_tier |-> CachePolicy_new(TierConfig((total * 6) \div 10, 100000, "LargestFirst"))]

\* determine_tier with Hot from an access_count of 10 on
determine_tier_from_ten(info) ==
    IF info.access_count >= 10 /\ info.size < 1024 * 1024 THEN "Hot"
    ELSE IF info.access_count > 2 \/ info.size < 10 * 1024 * 1024 THEN "Warm"
    ELSE "Cold"

determine_tier(info) ==
    IF info.access_count > 10 /\ info.size < 1024 * 1024 THEN "Hot"
    ELSE IF info.access_count > 2 \/ info.size < 10 * 1024 * 1024 THEN "Warm"
    ELSE "Cold"

TieredPolicy_record_add(tp, info) ==
    CASE determine_tier(info) = "Hot" -> [tp EXCEPT !.hot_tier = record_add(tp.hot_tier, info)]
      [] determine_tier(info) = "Warm" -> [tp EXCEPT !.warm_tier = record_add(tp.warm_tier, info)]
      [] determine_tier(info) = "Cold" -> [tp EXCEPT !.cold_tier = record_add(tp.cold_tier, info)]

\* the results for the cold, the warm and the hot tier, each tier's values
\* taken in the order given for it
TieredPolicy_select_evictions(tp, t, cold_values, warm_values, hot_values) ==
    <<select_evictions(tp.cold_tier, t, cold_values),
      select_evictions(tp.warm_tier, t, warm_values),
      select_evictions(tp.hot_tier, t, hot_values)>>

\* the configurations of the policy specification: every policy, once with
\* half the budget as the target and a min_ttl of a second, once with the
\* whole budget as the target and no min_ttl
PolicyConfigs ==
    {[max_size |-> PolicyMaxSize, max_entries |-> PolicyMaxEntries, policy |-> policy,
      target_utilization |-> k.target_utilization, min_ttl |-> k.min_ttl] :
        policy \in {"Lru", "Lfu", "Fifo", "LargestFirst", "SmallestFirst", "Adaptive"},
        k \in {[target_utilization |-> [num |-> 1, den |-> 2], min_ttl |-> 1],
               [target_utilization |-> [num |-> 1, den |-> 1], min_ttl |-> 0]}}

\* the policy of the specifications that call no CachePolicy
IdlePolicy ==
    CachePolicy_new([max_size |-> PolicyMaxSize, max_entries |-> PolicyMaxEntries,
                     policy |-> "Lru", target_utilization |-> [num |-> 1, den |-> 1],
                     min_ttl |-> 0])

(***************************************************************************)
(* Actions of the store, one caller at a time.                             *)
(***************************************************************************)
StoreIds == {hash(b) : b \in StoreBodies}

Put(data) ==
    /\ fs' = put(fs, cfg, data)
    /\ last' = [op |-> "put", arg |-> data, res |-> Ok(hash(data))]
    /\ UNCHANGED <<cfg, faults, procs, metaVars, policyVars, writerVars, taskVars>>

Get(content_id) ==
    /\ last' = [op |-> "get", arg |-> content_id, res |-> get(fs, cfg, content_id)]
    /\ UNCHANGED <<cfg, fs, faults, procs, metaVars, policyVars, writerVars, taskVars>>

Exists(content_id) ==
    /\ last' = [op |-> "exists", arg |-> content_id, res |-> Ok(exists(fs, content_id))]
    /\ UNCHANGED <<cfg, fs, faults, procs, metaVars, policyVars, writerVars, taskVars>>

Delete(content_id) ==
    /\ fs' = delete(fs, content_id)
    /\ last' = [op |-> "delete", arg |-> content_id, res |-> Ok("unit")]
    /\ UNCHANGED <<cfg, faults, procs, metaVars, policyVars, writerVars, taskVars>>

Gc(keep) ==
    LET r == gc(fs, keep)
    IN  /\ fs' = r.fs
        /\ last' = [op |-> "gc", arg |-> keep, res |-> Ok(r.freed)]
        /\ UNCHANGED <<cfg, faults, procs, metaVars, policyVars, writerVars, taskVars>>

\* a put that is cancelled (its future dropped) after `k` bytes reached the
\* temp file: the temp file stays behind
PutCancelled(data, k) ==
    LET path == storage_path(hash(data))
    IN  /\ faults < MaxFaults
        /\ ~path_exists(fs, path)
        /\ k \in 0 .. Len(stored_data(cfg, data))
        /\ fs' = write_file(fs, with_extension_tmp(path), SubSeq(stored_data(cfg, data), 1, k))
        /\ faults' = faults + 1
        /\ last' = [op |-> "put_cancelled", arg |-> data, res |-> Err("Cancelled", k)]
        /\ UNCHANGED <<cfg, procs, metaVars, policyVars, writerVars, taskVars>>

\* the environment alters one byte of a stored file
Corrupt(path, i, v) ==
    /\ faults < MaxFaults
    /\ path_exists(fs, path)
    /\ i \in 1 .. Len(fs[path])
    /\ v # fs[path][i]
    /\ fs' = [fs EXCEPT ![path] = [@ EXCEPT ![i] = v]]
    /\ faults' = faults + 1
    /\ last' = [op |-> "corrupt", arg |-> path, res |-> Ok("unit")]
    /\ UNCHANGED <<cfg, procs, metaVars, policyVars, writerVars, taskVars>>

NoCall == [op |-> "new", arg |-> "none", res |-> Ok("unit")]

\* the BlobWriters of the specifications, and one that is not created yet
Writers == {"w1", "w2"}
NoWriter ==
    [pc |-> "none", hasher |-> << >>, temp_path |-> {}, file |-> {}, off |-> 0,
     compress |-> FALSE, pending |-> << >>, res |-> Ok("none")]

\* the callers of delete and gc that run at once, and one that has not called
Tasks == {"t1", "t2"}
NoTask ==
    [pc |-> "idle", op |-> "none", id |-> hash(<< >>), ids |-> {}, keep |-> {},
     freed |-> 0, res |-> Ok("none")]

\* the callers of the concurrent specification, and a caller outside put
Procs == {"p1", "p2"}
Idle == [pc |-> "idle", data |-> << >>, fd |-> {}, off |-> 0, res |-> Ok("none")]

InitStore ==
    /\ cfg \in StoreConfigs
    /\ fs = EmptyFs
    /\ last = NoCall
    /\ faults = 0
    /\ procs = [p \in Procs |-> Idle]
    /\ pol = IdlePolicy
    /\ writers = [w \in Writers |-> NoWriter]
    /\ tasks = [t \in Tasks |-> NoTask]
    /\ db = EmptyMap
    /\ mem = LruCache_new(MemCapacity)
    /\ now = 0

NextStore ==
    \/ \E b \in StoreBodies : Put(b)
    \/ \E id \in StoreIds : Get(id)
    \/ \E id \in StoreIds : Exists(id)
    \/ \E id \in StoreIds : Delete(id)
    \/ \E keep \in SUBSET StoreIds : Gc(keep)
    \/ \E b \in StoreBodies, k \in 0 .. MaxLen : PutCancelled(b, k)
    \/ \E id \in StoreIds, i \in 1 .. MaxLen, v \in CorruptValues :
           Corrupt(storage_path(id), i, v)

SpecStore == InitStore /\ [][NextStore]_vars

(***************************************************************************)
(* The round trip of one body through put and get, for every body and      *)
(* every configuration.  The store may be reopened with another            *)
(* configuration; every file in it was written by put.                     *)
(***************************************************************************)
\* BlobStore::new on the same directory with another configuration
Reopen(c) ==
    /\ cfg' = c
    /\ last' = [op |-> "new", arg |-> "reopen", res |-> Ok("unit")]
    /\ UNCHANGED <<fs, faults, procs, metaVars, policyVars, writerVars, taskVars>>

InitRoundTrip ==
    /\ cfg \in Configs
    /\ fs = EmptyFs
    /\ last = NoCall
    /\ faults = 0
    /\ procs = [p \in Procs |-> Idle]
    /\ pol = IdlePolicy
    /\ writers = [w \in Writers |-> NoWriter]
    /\ tasks = [t \in Tasks |-> NoTask]
    /\ db = EmptyMap
    /\ mem = LruCache_new(MemCapacity)
    /\ now = 0

NextRoundTrip ==
    \/ \E b \in Bodies : list(fs) \subseteq {hash(b)} /\ Put(b)
    \/ \E id \in list(fs) : Get(id)
    \/ \E c \in Configs : Reopen(c)

SpecRoundTrip == InitRoundTrip /\ [][NextRoundTrip]_vars

(***************************************************************************)
(* put by two callers at once.  A caller is suspended at every await of    *)
(* put (create_dir_all, File::create, each write of write_all, sync_all,   *)
(* rename), where the other caller, or a reader, may run.  An open file    *)
(* follows its file through a rename; `fd` is the path the file is at now, *)
(* or nothing once the file has no name.                                   *)
(***************************************************************************)
\* the bodies two callers put at once: one stored compressed, one raw
RaceBodies == {<<0, 0, 0, 0>>, <<0, 1, 0, 1>>}

\* the file after one byte is written at offset `off` (a gap reads as zeros)
write_at(content, off, byte) ==
    LET padded == IF Len(content) < off
                  THEN content \o [i \in 1 .. (off - Len(content)) |-> 0]
                  ELSE content
    IN  IF Len(padded) = off THEN Append(padded, byte)
        ELSE [padded EXCEPT ![off + 1] = byte]

\* lines 113-126: hash, the check for an existing object, create_dir_all
PutStart(p, data) ==
    /\ procs[p].pc = "idle"
    /\ procs' = [procs EXCEPT ![p] =
           IF path_exists(fs, storage_path(hash(data)))
           THEN [Idle EXCEPT !.pc = "done", !.data = data, !.res = Ok(hash(data))]
           ELSE [Idle EXCEPT !.pc = "create", !.data = data]]
    /\ UNCHANGED <<cfg, fs, last, faults, metaVars, policyVars, writerVars, taskVars>>

\* lines 142-145: File::create(temp_path) creates the file or truncates it
PutCreate(p) ==
    LET temp_path == with_extension_tmp(storage_path(hash(procs[p].data)))
    IN  /\ procs[p].pc = "create"
        /\ fs' = write_file(fs, temp_path, << >>)
        /\ procs' = [procs EXCEPT ![p].pc = "write", ![p].fd = {temp_path}, ![p].off = 0]
        /\ UNCHANGED <<cfg, last, faults, metaVars, policyVars, writerVars, taskVars>>

\* lines 147-149: write_all, one write at a time, at the offset of the open file
PutWrite(p) ==
    LET stored == stored_data(cfg, procs[p].data)
        off == procs[p].off
    IN  /\ procs[p].pc = "write"
        /\ off < Len(stored)
        /\ fs' = [q \in DOMAIN fs |->
                    IF q \in procs[p].fd THEN write_at(fs[q], off, stored[off + 1]) ELSE fs[q]]
        /\ procs' = [procs EXCEPT ![p].off = off + 1]
        /\ UNCHANGED <<cfg, last, faults, metaVars, policyVars, writerVars, taskVars>>

\* lines 151-153: sync_all
PutSync(p) ==
    /\ procs[p].pc = "write"
    /\ procs[p].off = Len(stored_data(cfg, procs[p].data))
    /\ procs' = [procs EXCEPT ![p].pc = "rename"]
    /\ UNCHANGED <<cfg, fs, last, faults, metaVars, policyVars, writerVars, taskVars>>

\* lines 155-160: rename(temp_path, path); it fails when temp_path is gone
PutRename(p) ==
    LET path == storage_path(hash(procs[p].data))
        temp_path == with_extension_tmp(path)
    IN  /\ procs[p].pc = "rename"
        /\ IF path_exists(fs, temp_path)
           THEN /\ fs' = rename(fs, temp_path, path)
                /\ procs' = [q \in Procs |->
                       LET fd == IF procs[q].fd = {temp_path} THEN {path}
                                 ELSE IF procs[q].fd = {path} THEN {}
                                 ELSE procs[q].fd
                       IN  IF q = p
                           THEN [procs[q] EXCEPT !.pc = "done", !.fd = {},
                                                 !.res = Ok(hash(procs[p].data))]
                           ELSE [procs[q] EXCEPT !.fd = fd]]
           ELSE /\ fs' = fs
                /\ procs' = [procs EXCEPT ![p].pc = "done", ![p].fd = {}, ![p].res = IoError]
        /\ UNCHANGED <<cfg, last, faults, metaVars, policyVars, writerVars, taskVars>>

\* the caller drops the future of put at an await: the call ends there
PutCancel(p) ==
    /\ procs[p].pc \in {"create", "write", "rename"}
    /\ procs' = [procs EXCEPT ![p].pc = "cancelled", ![p].fd = {}, ![p].res = Err("Cancelled", "put")]
    /\ UNCHANGED <<cfg, fs, last, faults, metaVars, policyVars, writerVars, taskVars>>

RaceIds == {hash(b) : b \in RaceBodies}

InitRace ==
    /\ cfg \in StoreConfigs
    /\ fs = EmptyFs
    /\ last = NoCall
    /\ faults = 0
    /\ procs = [p \in Procs |-> Idle]
    /\ pol = IdlePolicy
    /\ writers = [w \in Writers |-> NoWriter]
    /\ tasks = [t \in Tasks |-> NoTask]
    /\ db = EmptyMap
    /\ mem = LruCache_new(MemCapacity)
    /\ now = 0

NextRace ==
    \/ \E p \in Procs, b \in RaceBodies : PutStart(p, b)
    \/ \E p \in Procs : PutCreate(p)
    \/ \E p \in Procs : PutWrite(p)
    \/ \E p \in Procs : PutSync(p)
    \/ \E p \in Procs : PutRename(p)
    \/ \E p \in Procs : PutCancel(p)
    \/ \E id \in RaceIds : Get(id)

SpecRace == InitRace /\ [][NextRace]_vars

(***************************************************************************)
(* A BlobWriter beside the callers of put and get, one file-system call    *)
(* at a time.                                                              *)
(***************************************************************************)
\* uuid_simple: the seconds and the nanoseconds of the clock reading
uuid_simple(t) == <<t, 0>>

\* config.path.join("upload_<tag>"): a file of the store root, under no shard
\* directory, whose name is the name of no id
upload_path(tag) == [cid |-> [blake3 |-> tag], ext |-> "upload"]

\* write_all at the offset of the open file
RECURSIVE write_all_at(_, _, _)
write_all_at(content, off, data) ==
    IF data = << >> THEN content
    ELSE write_all_at(write_at(content, off, Head(data)), off + 1, Tail(data))

\* the chunks handed to BlobWriter::write
Chunks == {<<b>> : b \in InputBytes} \cup {<<0, 0>>}
\* the configurations of the writer specification
WriterConfigs == [compress : BOOLEAN, compress_threshold : {3}, verify_on_read : BOOLEAN]
\* the body put is called with beside the writer
WriterBodies == {<<0, 0, 0, 0>>}

\* BlobWriter::new: File::create(temp_path) creates the file or truncates it
WriterNew(w) ==
    LET temp_path == upload_path(uuid_simple(now))
    IN  /\ writers[w].pc = "none"
        /\ fs' = write_file(fs, temp_path, << >>)
        /\ writers' = [writers EXCEPT ![w] =
               [NoWriter EXCEPT !.pc = "open", !.temp_path = {temp_path},
                                !.file = {temp_path}, !.compress = cfg.compress]]
        /\ UNCHANGED <<cfg, last, faults, procs, metaVars, policyVars, taskVars>>

\* BlobWriter::write: hasher.update(data), file.write_all(data)
WriterWrite(w, data) ==
    /\ writers[w].pc = "open"
    /\ Len(writers[w].hasher) + Len(data) <= MaxLen
    /\ fs' = [q \in DOMAIN fs |->
                IF q \in writers[w].file THEN write_all_at(fs[q], writers[w].off, data)
                ELSE fs[q]]
    /\ writers' = [writers EXCEPT ![w].hasher = @ \o data, ![w].off = @ + Len(data)]
    /\ UNCHANGED <<cfg, last, faults, procs, metaVars, policyVars, taskVars>>

\* finish, lines 363-378: file.take(), sync_all, finalize, create_dir_all
FinishSync(w) ==
    /\ writers[w].pc = "open"
    /\ writers' = [writers EXCEPT ![w].file = {},
                                  ![w].pc = IF writers[w].compress THEN "read" ELSE "rename"]
    /\ UNCHANGED <<cfg, fs, last, faults, procs, metaVars, policyVars, taskVars>>

\* finish, lines 381-387: fs::read(temp_path), compress_prepend_size, the
\* comparison of the lengths
FinishRead(w) ==
    /\ writers[w].pc = "read"
    /\ IF writers[w].temp_path \subseteq DOMAIN fs
       THEN LET data == fs[CHOOSE q \in writers[w].temp_path : TRUE]
                compressed == compress_prepend_size(data)
            IN  writers' = [writers EXCEPT
                    ![w].pc = IF Len(compressed) < Len(data) THEN "write" ELSE "rename",
                    ![w].pending = IF Len(compressed) < Len(data) THEN compressed ELSE << >>]
       ELSE writers' = [writers EXCEPT ![w].pc = "done", ![w].res = IoError]
    /\ UNCHANGED <<cfg, fs, last, faults, procs, metaVars, policyVars, taskVars>>

\* finish, line 388: fs::write(final_path, compressed) first creates the file
\* or truncates it
FinishCreate(w) ==
    LET final_path == storage_path(hash(writers[w].hasher))
    IN  /\ writers[w].pc = "write"
        /\ fs' = write_file(fs, final_path, << >>)
        /\ writers' = [writers EXCEPT ![w].pc = "writing", ![w].file = {final_path},
                                      ![w].off = 0]
        /\ UNCHANGED <<cfg, last, faults, procs, metaVars, policyVars, taskVars>>

\* finish, line 388: fs::write then writes the bytes, one write at a time
FinishWrite(w) ==
    LET off == writers[w].off
    IN  /\ writers[w].pc = "writing"
        /\ off < Len(writers[w].pending)
        /\ fs' = [q \in DOMAIN fs |->
                    IF q \in writers[w].file
                    THEN write_at(fs[q], off, writers[w].pending[off + 1]) ELSE fs[q]]
        /\ writers' = [writers EXCEPT ![w].off = off + 1]
        /\ UNCHANGED <<cfg, last, faults, procs, metaVars, policyVars, taskVars>>

\* finish, lines 391-394: remove_file(temp_path) and the return of the id
FinishRemove(w) ==
    /\ writers[w].pc = "writing"
    /\ writers[w].off = Len(writers[w].pending)
    /\ IF writers[w].temp_path \subseteq DOMAIN fs
       THEN /\ fs' = remove_file(fs, CHOOSE q \in writers[w].temp_path : TRUE)
            /\ writers' = [v \in Writers |->
                   IF v = w
                   THEN [writers[v] EXCEPT !.pc = "done", !.file = {},
                                           !.res = Ok(hash(writers[w].hasher))]
                   ELSE IF writers[v].file = writers[w].temp_path
                   THEN [writers[v] EXCEPT !.file = {}]
                   ELSE writers[v]]
       ELSE /\ fs' = fs
            /\ writers' = [writers EXCEPT ![w].pc = "done", ![w].file = {},
                                          ![w].res = IoError]
    /\ UNCHANGED <<cfg, last, faults, procs, metaVars, policyVars, taskVars>>

\* finish, lines 398-403: rename(temp_path, final_path) and the return of the id
FinishRename(w) ==
    LET final_path == storage_path(hash(writers[w].hasher))
    IN  /\ writers[w].pc = "rename"
        /\ IF writers[w].temp_path \subseteq DOMAIN fs
           THEN /\ fs' = rename(fs, CHOOSE q \in writers[w].temp_path : TRUE, final_path)
                /\ writers' = [v \in Writers |->
                       LET file == IF writers[v].file = writers[w].temp_path THEN {final_path}
                                   ELSE IF writers[v].file = {final_path} THEN {}
                                   ELSE writers[v].file
                       IN  IF v = w
                           THEN [writers[v] EXCEPT !.pc = "done",
                                                   !.res = Ok(hash(writers[w].hasher))]
                           ELSE [writers[v] EXCEPT !.file = file]]
           ELSE /\ fs' = fs
                /\ writers' = [writers EXCEPT ![w].pc = "done", ![w].res = IoError]
        /\ UNCHANGED <<cfg, last, faults, procs, metaVars, policyVars, taskVars>>

\* the file-system call finish is waiting for returns an error, and finish
\* returns CacheError::Io (the map_err(..)? of lines 382-401)
FinishFails(w) ==
    /\ faults < MaxFaults
    /\ writers[w].pc \in {"read", "write", "writing", "rename"}
    /\ writers' = [writers EXCEPT ![w].pc = "done", ![w].file = {}, ![w].res = IoError]
    /\ faults' = faults + 1
    /\ UNCHANGED <<cfg, fs, last, procs, metaVars, policyVars, taskVars>>

\* the process stops while the writer is open or in finish
WriterCrash(w) ==
    /\ faults < MaxFaults
    /\ writers[w].pc \in {"open", "read", "write", "writing", "rename"}
    /\ writers' = [writers EXCEPT ![w].pc = "crashed", ![w].file = {},
                                  ![w].res = Err("Crashed", "finish")]
    /\ faults' = faults + 1
    /\ UNCHANGED <<cfg, fs, last, procs, metaVars, policyVars, taskVars>>

\* a put whose write_all fails after `k` bytes (lines 147-149): put returns
\* CacheError::Io
PutFails(data, k) ==
    LET path == storage_path(hash(data))
    IN  /\ faults < MaxFaults
        /\ ~path_exists(fs, path)
        /\ k \in 0 .. (Len(stored_data(cfg, data)) - 1)
        /\ fs' = write_file(fs, with_extension_tmp(path), SubSeq(stored_data(cfg, data), 1, k))
        /\ faults' = faults + 1
        /\ last' = [op |-> "put", arg |-> data, res |-> IoError]
        /\ UNCHANGED <<cfg, procs, metaVars, policyVars, writerVars, taskVars>>

InitWriter ==
    /\ cfg \in WriterConfigs
    /\ fs = EmptyFs
    /\ last = NoCall
    /\ faults = 0
    /\ procs = [p \in Procs |-> Idle]
    /\ pol = IdlePolicy
    /\ writers = [w \in Writers |-> NoWriter]
    /\ tasks = [t \in Tasks |-> NoTask]
    /\ db = EmptyMap
    /\ mem = LruCache_new(MemCapacity)
    /\ now = 0

\* the writer of the specification with one writer
SingleWriter == {"w1"}

NextWriter ==
    \/ \E w \in SingleWriter : WriterNew(w)
    \/ \E w \in SingleWriter, data \in Chunks : WriterWrite(w, data)
    \/ \E w \in SingleWriter : FinishSync(w)
    \/ \E w \in SingleWriter : FinishRead(w)
    \/ \E w \in SingleWriter : FinishCreate(w)
    \/ \E w \in SingleWriter : FinishWrite(w)
    \/ \E w \in SingleWriter : FinishRemove(w)
    \/ \E w \in SingleWriter : FinishRename(w)
    \/ \E w \in SingleWriter : FinishFails(w)
    \/ \E w \in SingleWriter : WriterCrash(w)
    \/ \E b \in WriterBodies : Put(b)
    \/ \E b \in WriterBodies, k \in 0 .. MaxLen : PutFails(b, k)
    \/ \E id \in list(fs) : Get(id)

SpecWriter == InitWriter /\ [][NextWriter]_vars

(***************************************************************************)
(* Two BlobWriters on the same store, one file-system call at a time.      *)
(***************************************************************************)
\* the chunks the two writers are handed
PairChunks == {<<0, 0>>, <<0, 1>>}

\* a second passes
WriterTick ==
    /\ now < MaxTime
    /\ now' = now + 1
    /\ UNCHANGED <<db, mem, last, blobVars, policyVars, writerVars, taskVars>>

InitWriterPair == InitWriter

NextWriterPair ==
    \/ \E w \in Writers : WriterNew(w)
    \/ \E w \in Writers, data \in PairChunks : WriterWrite(w, data)
    \/ \E w \in Writers : FinishSync(w)
    \/ \E w \in Writers : FinishRead(w)
    \/ \E w \in Writers : FinishCreate(w)
    \/ \E w \in Writers : FinishWrite(w)
    \/ \E w \in Writers : FinishRemove(w)
    \/ \E w \in Writers : FinishRename(w)
    \/ WriterTick

SpecWriterPair == InitWriterPair /\ [][NextWriterPair]_vars

(***************************************************************************)
(* delete and gc by two callers at once.  delete tests path.exists() and   *)
(* then awaits fs::remove_file; gc awaits list(), then for every id that   *)
(* is not kept awaits size and delete.  Another caller may run between     *)
(* any two of these.  gc visits the ids in the order read_dir gave them,   *)
(* which is any order.                                                     *)
(***************************************************************************)
DelBodies == {<<0>>, <<1>>}
DelIds == {hash(b) : b \in DelBodies}

\* delete has come to its end with result r: the call returns if it is a
\* delete; in gc, `?` returns the error, and success goes on with the loop
delete_returns(task, r) ==
    IF task.op = "gc" /\ r.tag = "Ok" THEN [task EXCEPT !.pc = "gc_next"]
    ELSE [task EXCEPT !.pc = "done", !.res = r]

\* remove_file of a path that is gone fails with ENOENT; a file that is
\* there is removed
remove_file_result(f, path) == IF path_exists(f, path) THEN Ok("unit") ELSE IoError

DeleteCall(t, content_id) ==
    /\ tasks[t].pc = "idle"
    /\ tasks' = [tasks EXCEPT ![t] = [NoTask EXCEPT !.pc = "check", !.op = "delete",
                                                    !.id = content_id]]
    /\ UNCHANGED <<cfg, fs, last, faults, procs, metaVars, policyVars, writerVars>>

\* if path.exists()
DeleteCheck(t) ==
    /\ tasks[t].pc = "check"
    /\ tasks' = [tasks EXCEPT ![t] =
                     IF path_exists(fs, storage_path(tasks[t].id))
                     THEN [tasks[t] EXCEPT !.pc = "remove"]
                     ELSE delete_returns(tasks[t], Ok("unit"))]
    /\ UNCHANGED <<cfg, fs, last, faults, procs, metaVars, policyVars, writerVars>>

\* fs::remove_file(&path).await.map_err(Io)?
DeleteRemove(t) ==
    LET path == storage_path(tasks[t].id)
    IN  /\ tasks[t].pc = "remove"
        /\ fs' = IF path_exists(fs, path) THEN remove_file(fs, path) ELSE fs
        /\ tasks' = [tasks EXCEPT ![t] = delete_returns(tasks[t], remove_file_result(fs, path))]
        /\ UNCHANGED <<cfg, last, faults, procs, metaVars, policyVars, writerVars>>

\* let all_ids = self.list().await?
GcCall(t, keep) ==
    /\ tasks[t].pc = "idle"
    /\ tasks' = [tasks EXCEPT ![t] = [NoTask EXCEPT !.pc = "gc_next", !.op = "gc",
                                                    !.keep = keep, !.ids = list(fs)]]
    /\ UNCHANGED <<cfg, fs, last, faults, procs, metaVars, policyVars, writerVars>>

\* one turn of the loop up to the call of delete, or the return after the
\* last id
GcNext(t) ==
    /\ tasks[t].pc = "gc_next"
    /\ IF tasks[t].ids = {}
       THEN tasks' = [tasks EXCEPT ![t].pc = "done", ![t].res = Ok(tasks[t].freed)]
       ELSE \E id \in tasks[t].ids :
                LET s == size(fs, id)
                IN  tasks' = [tasks EXCEPT ![t] =
                        IF id \in tasks[t].keep
                        THEN [tasks[t] EXCEPT !.ids = @ \ {id}]
                        ELSE [tasks[t] EXCEPT !.ids = @ \ {id}, !.id = id, !.pc = "check",
                                  !.freed = IF s.tag = "Ok" THEN @ + s.val ELSE @]]
    /\ UNCHANGED <<cfg, fs, last, faults, procs, metaVars, policyVars, writerVars>>

\* the caller takes the result and may call again
TaskReturn(t) ==
    /\ tasks[t].pc = "done"
    /\ last' = [op |-> tasks[t].op, arg |-> tasks[t].id, res |-> tasks[t].res]
    /\ tasks' = [tasks EXCEPT ![t] = NoTask]
    /\ UNCHANGED <<cfg, fs, faults, procs, metaVars, policyVars, writerVars>>

InitDelete ==
    /\ cfg \in {c \in StoreConfigs : c.compress_threshold = 3 /\ ~c.verify_on_read}
    /\ fs = EmptyFs
    /\ last = NoCall
    /\ faults = 0
    /\ procs = [p \in Procs |-> Idle]
    /\ pol = IdlePolicy
    /\ writers = [w \in Writers |-> NoWriter]
    /\ tasks = [t \in Tasks |-> NoTask]
    /\ db = EmptyMap
    /\ mem = LruCache_new(MemCapacity)
    /\ now = 0

NextDelete ==
    \/ \E b \in DelBodies : Put(b)
    \/ \E t \in Tasks, id \in DelIds : DeleteCall(t, id)
    \/ \E t \in Tasks : DeleteCheck(t)
    \/ \E t \in Tasks : DeleteRemove(t)
    \/ \E t \in Tasks, keep \in SUBSET DelIds : GcCall(t, keep)
    \/ \E t \in Tasks : GcNext(t)
    \/ \E t \in Tasks : TaskReturn(t)

SpecDelete == InitDelete /\ [][NextDelete]_vars

(***************************************************************************)
(* Actions of the metadata cache, one caller at a time.                    *)
(***************************************************************************)
\* the paths of the specification: a directory, a file in it, and a file
\* beside it whose name starts with the name of the directory and a colon
BackendB == <<"b">>
PathD == VirtualPath_new(BackendB, <<"/", "d">>)
PathDF == VirtualPath_new(BackendB, <<"/", "d", "/", "f">>)
PathDColon == VirtualPath_new(BackendB, <<"/", "d", ":", "f">>)
MetaPaths == {PathD, PathDF, PathDColon}

entry_of(path) ==
    [path |-> path,
     kind |-> IF path = PathD THEN "EntryKind::Directory" ELSE "EntryKind::File"]
MetaEntries == {entry_of(p) : p \in MetaPaths}
\* the listings put_directory is given for PathD
Listings == {<< >>, <<entry_of(PathDF)>>}

is_descendant(child, path) ==
    /\ child.backend = path.backend
    /\ Len(child.segments) > Len(path.segments)
    /\ SubSeq(child.segments, 1, Len(path.segments)) = path.segments

State == [db |-> db, mem |-> mem]

PutEntry(entry) ==
    LET r == put_entry(State, now, entry)
    IN  /\ db' = r.db
        /\ mem' = r.mem
        /\ last' = [op |-> "put_entry", arg |-> entry.path, res |-> r.res]
        /\ UNCHANGED <<now, blobVars, policyVars, writerVars, taskVars>>

PutEntryWithTtl(entry, ttl_secs) ==
    LET r == put_entry_with_ttl(State, now, entry, ttl_secs)
    IN  /\ db' = r.db
        /\ mem' = r.mem
        /\ last' = [op |-> "put_entry_with_ttl", arg |-> entry.path, res |-> r.res]
        /\ UNCHANGED <<now, blobVars, policyVars, writerVars, taskVars>>

GetEntry(path) ==
    LET r == get_entry(State, now, path)
    IN  /\ db' = r.db
        /\ mem' = r.mem
        /\ last' = [op |-> "get_entry", arg |-> path, res |-> r.res]
        /\ UNCHANGED <<now, blobVars, policyVars, writerVars, taskVars>>

PutDirectory(path, entries) ==
    LET r == put_directory(State, now, path, entries)
    IN  /\ db' = r.db
        /\ mem' = r.mem
        /\ last' = [op |-> "put_directory", arg |-> <<path, entries>>, res |-> r.res]
        /\ UNCHANGED <<now, blobVars, policyVars, writerVars, taskVars>>

GetDirectory(path) ==
    LET r == get_directory(State, now, path)
    IN  /\ db' = r.db
        /\ mem' = r.mem
        /\ last' = [op |-> "get_directory", arg |-> path, res |-> r.res]
        /\ UNCHANGED <<now, blobVars, policyVars, writerVars, taskVars>>

Invalidate(path) ==
    LET r == invalidate(State, path)
    IN  /\ db' = r.db
        /\ mem' = r.mem
        /\ last' = [op |-> "invalidate", arg |-> path, res |-> r.res]
        /\ UNCHANGED <<now, blobVars, policyVars, writerVars, taskVars>>

InvalidateDirectory(path) ==
    LET r == invalidate_directory(State, path)
    IN  /\ db' = r.db
        /\ mem' = r.mem
        /\ last' = [op |-> "invalidate_directory", arg |-> path, res |-> r.res]
        /\ UNCHANGED <<now, blobVars, policyVars, writerVars, taskVars>>

ClearBackend(backend_id) ==
    LET r == clear_backend(State, backend_id)
    IN  /\ db' = r.db
        /\ mem' = r.mem
        /\ last' = [op |-> "clear_backend", arg |-> backend_id, res |-> r.res]
        /\ UNCHANGED <<now, blobVars, policyVars, writerVars, taskVars>>

PruneExpired ==
    LET r == prune_expired(State, now)
    IN  /\ db' = r.db
        /\ mem' = r.mem
        /\ last' = [op |-> "prune_expired", arg |-> "none", res |-> r.res]
        /\ UNCHANGED <<now, blobVars, policyVars, writerVars, taskVars>>

\* a second passes
Tick ==
    /\ now < MaxTime
    /\ now' = now + 1
    /\ last' = [op |-> "tick", arg |-> "none", res |-> Ok("unit")]
    /\ UNCHANGED <<db, mem, blobVars, policyVars, writerVars, taskVars>>

InitMeta ==
    /\ db = EmptyMap
    /\ mem = LruCache_new(MemCapacity)
    /\ now = 0
    /\ last = NoCall
    /\ cfg \in {[compress |-> TRUE, compress_threshold |-> 3, verify_on_read |-> TRUE]}
    /\ fs = EmptyFs
    /\ faults = 0
    /\ procs = [p \in Procs |-> Idle]
    /\ pol = IdlePolicy
    /\ writers = [w \in Writers |-> NoWriter]
    /\ tasks = [t \in Tasks |-> NoTask]

NextMeta ==
    \/ \E e \in MetaEntries : PutEntry(e)
    \/ \E ttl \in CustomTtls : PutEntryWithTtl(entry_of(PathDF), ttl)
    \/ \E p \in MetaPaths : GetEntry(p)
    \/ \E es \in Listings : PutDirectory(PathD, es)
    \/ GetDirectory(PathD)
    \/ \E p \in MetaPaths : Invalidate(p)
    \/ \E p \in MetaPaths : InvalidateDirectory(p)
    \/ ClearBackend(BackendB)
    \/ Tick

SpecMeta == InitMeta /\ [][NextMeta]_vars

(***************************************************************************)
(* The metadata cache under a wall clock that may be stepped back          *)
(* (Utc::now is the system's real-time clock, not a monotonic one).        *)
(***************************************************************************)
ClockRewind ==
    /\ now > 0
    /\ now' = now - 1
    /\ last' = [op |-> "rewind", arg |-> "none", res |-> Ok("unit")]
    /\ UNCHANGED <<db, mem, blobVars, policyVars, writerVars, taskVars>>

InitRewind == InitMeta

NextRewind ==
    \/ \E e \in MetaEntries : PutEntry(e)
    \/ \E ttl \in CustomTtls : PutEntryWithTtl(entry_of(PathDF), ttl)
    \/ \E p \in MetaPaths : GetEntry(p)
    \/ \E es \in Listings : PutDirectory(PathD, es)
    \/ GetDirectory(PathD)
    \/ Tick
    \/ ClockRewind

SpecRewind == InitRewind /\ [][NextRewind]_vars

(***************************************************************************)
(* Directory listings through the metadata cache: put_directory of a       *)
(* listing, get_directory, and children that go missing one by one         *)
(* (one invalidated, one expired before the listing).  The backend id of   *)
(* a path is whatever string its backend was given.                        *)
(***************************************************************************)
BackendSlash == <<"b", "/", "c">>
PathSlashF == VirtualPath_new(BackendSlash, <<"/", "f">>)
FileF == [path |-> PathDF, kind |-> "EntryKind::File"]
DirectoryF == [path |-> PathDF, kind |-> "EntryKind::Directory"]
FileColon == [path |-> PathDColon, kind |-> "EntryKind::File"]
SymlinkSlash == [path |-> PathSlashF, kind |-> "EntryKind::Symlink"]
\* the listings: one path under two kinds, a second path, and a path whose
\* backend id has a '/'
DirListings ==
    {<< >>, <<FileF>>, <<FileF, FileColon>>, <<FileColon, DirectoryF>>,
     <<FileF, DirectoryF>>, <<SymlinkSlash>>, <<FileColon, SymlinkSlash>>}

InitDir == InitMeta

NextDir ==
    \/ \E es \in DirListings : PutDirectory(PathD, es)
    \/ GetDirectory(PathD)
    \/ \E ttl \in CustomTtls : PutEntryWithTtl(FileF, ttl)
    \/ Invalidate(PathDColon)
    \/ PruneExpired
    \/ Tick

SpecDir == InitDir /\ [][NextDir]_vars

(***************************************************************************)
(* VirtualPath on its own: paths are built by new, root, join, parent and  *)
(* parse_uri from backend ids and path strings over a small alphabet, and  *)
(* join, parent and parse_uri start from a path the call before them      *)
(* produced; a chain of calls starts over at root, or at new after root.   *)
(* `last` is the call, its arguments and the value it returned.            *)
(***************************************************************************)
PathChars == {"a", ".", "/"}
PathStrings == SeqsUpTo(PathChars, MaxPathLen)
\* backend ids: an identifier, and a string with a '/' in it
PathBackends == {BackendB, BackendSlash}

\* the paths the last call produced
produced(call) ==
    IF call.op \in {"new", "root", "join"} THEN {call.res}
    ELSE IF call.op \in {"parent", "parse_uri"} /\ call.res.some THEN {call.res.val}
    ELSE {}

\* the strings parse_uri is given for a path: its URI, its URI without the
\* trailing path, and strings that lack the scheme
uris_of(vp) ==
    {to_uri(vp), Scheme \o vp.backend, to_path_string(vp), Tail(to_uri(vp)),
     <<"c", "f", "k", ":", "/">> \o vp.backend}

PathNew(backend, path) ==
    /\ last.op = "root"
    /\ last' = [op |-> "new", arg |-> <<backend, path>>, res |-> VirtualPath_new(backend, path)]
    /\ UNCHANGED <<blobVars, metaVars, policyVars, writerVars, taskVars>>

PathRoot(backend) ==
    /\ last' = [op |-> "root", arg |-> backend, res |-> root(backend)]
    /\ UNCHANGED <<blobVars, metaVars, policyVars, writerVars, taskVars>>

PathJoin(name) ==
    /\ \E vp \in produced(last) :
           /\ Len(join(vp, name).segments) <= MaxSegments
           /\ last' = [op |-> "join", arg |-> <<vp, name>>, res |-> join(vp, name)]
    /\ UNCHANGED <<blobVars, metaVars, policyVars, writerVars, taskVars>>

PathParent ==
    /\ \E vp \in produced(last) :
           last' = [op |-> "parent", arg |-> vp, res |-> parent(vp)]
    /\ UNCHANGED <<blobVars, metaVars, policyVars, writerVars, taskVars>>

PathParseUri ==
    /\ \E vp \in produced(last) :
           \E uri \in uris_of(vp) :
               last' = [op |-> "parse_uri", arg |-> uri, res |-> parse_uri(uri)]
    /\ UNCHANGED <<blobVars, metaVars, policyVars, writerVars, taskVars>>

InitPath ==
    /\ last = [op |-> "root", arg |-> BackendB, res |-> root(BackendB)]
    /\ db = EmptyMap
    /\ mem = LruCache_new(MemCapacity)
    /\ now = 0
    /\ cfg \in {[compress |-> TRUE, compress_threshold |-> 3, verify_on_read |-> TRUE]}
    /\ fs = EmptyFs
    /\ faults = 0
    /\ procs = [p \in Procs |-> Idle]
    /\ pol = IdlePolicy
    /\ writers = [w \in Writers |-> NoWriter]
    /\ tasks = [t \in Tasks |-> NoTask]

NextPath ==
    \/ \E backend \in PathBackends, path \in PathStrings : PathNew(backend, path)
    \/ \E backend \in PathBackends : PathRoot(backend)
    \/ \E name \in PathStrings : PathJoin(name)
    \/ PathParent
    \/ PathParseUri

SpecPath == InitPath /\ [][NextPath]_vars

(***************************************************************************)
(* Actions of the eviction policy engine, behind its exclusive guard.      *)
(***************************************************************************)
PolicyIds == {hash(<<0>>), hash(<<1>>)}

\* the orders a HashMap of the entries may iterate its values in
values_orders(entries) ==
    LET n == Cardinality(DOMAIN entries)
    IN  {[i \in 1 .. n |-> entries[ids[i]]] :
            ids \in {f \in [1 .. n -> DOMAIN entries] :
                        \A i, j \in 1 .. n : i # j => f[i] # f[j]}}

RecordAdd(content_id, nbytes) ==
    /\ pol.total_size + nbytes <= MaxTotalSize
    /\ pol' = record_add(pol, CacheEntryInfo_new(content_id, nbytes, now))
    /\ last' = [op |-> "record_add", arg |-> content_id, res |-> Ok("unit")]
    /\ UNCHANGED <<blobVars, metaVars, writerVars, taskVars>>

RecordAccess(content_id) ==
    /\ content_id \in DOMAIN pol.entries => pol.entries[content_id].access_count < MaxAccessCount
    /\ pol' = record_access(pol, content_id, now)
    /\ last' = [op |-> "record_access", arg |-> content_id, res |-> Ok("unit")]
    /\ UNCHANGED <<blobVars, metaVars, writerVars, taskVars>>

RecordRemove(content_id) ==
    /\ pol' = record_remove(pol, content_id)
    /\ last' = [op |-> "record_remove", arg |-> content_id, res |-> Ok("unit")]
    /\ UNCHANGED <<blobVars, metaVars, writerVars, taskVars>>

SelectEvictions ==
    \E values \in values_orders(pol.entries) :
        /\ last' = [op |-> "select_evictions", arg |-> "none",
                    res |-> Ok(select_evictions(pol, now, values))]
        /\ UNCHANGED <<blobVars, metaVars, policyVars, writerVars, taskVars>>

\* a second passes
PolicyTick ==
    /\ now < MaxTime
    /\ now' = now + 1
    /\ last' = [op |-> "tick", arg |-> "none", res |-> Ok("unit")]
    /\ UNCHANGED <<db, mem, blobVars, policyVars, writerVars, taskVars>>

InitPolicy ==
    /\ pol \in {CachePolicy_new(c) : c \in PolicyConfigs}
    /\ writers = [w \in Writers |-> NoWriter]
    /\ tasks = [t \in Tasks |-> NoTask]
    /\ now = 0
    /\ last = NoCall
    /\ db = EmptyMap
    /\ mem = LruCache_new(MemCapacity)
    /\ cfg \in {[compress |-> TRUE, compress_threshold |-> 3, verify_on_read |-> TRUE]}
    /\ fs = EmptyFs
    /\ faults = 0
    /\ procs = [p \in Procs |-> Idle]

NextPolicy ==
    \/ \E id \in PolicyIds, nbytes \in PolicySizes : RecordAdd(id, nbytes)
    \/ \E id \in PolicyIds : RecordAccess(id)
    \/ \E id \in PolicyIds : RecordRemove(id)
    \/ SelectEvictions
    \/ PolicyTick

SpecPolicy == InitPolicy /\ [][NextPolicy]_vars

(***************************************************************************)
(* Actions of the TieredPolicy; `pol` holds its three tiers.  The entries  *)
(* handed to record_add have sizes and access counts on both sides of      *)
(* every threshold of determine_tier; callers raise access_count with      *)
(* touch() before they hand an entry over.                                 *)
(***************************************************************************)
TierInputs ==
    {[size |-> 1024 * 1024 - 1, access_count |-> 11],
     [size |-> 1024 * 1024, access_count |-> 11],
     [size |-> 1024 * 1024 - 1, access_count |-> 10],
     [size |-> 10 * 1024 * 1024, access_count |-> 3],
     [size |-> 10 * 1024 * 1024, access_count |-> 2],
     [size |-> 10 * 1024 * 1024 - 1, access_count |-> 2]}

tier_of(tp, tier) ==
    CASE tier = "Hot" -> tp.hot_tier
      [] tier = "Warm" -> tp.warm_tier
      [] tier = "Cold" -> tp.cold_tier

TieredRecordAdd(content_id, k) ==
    LET info == [CacheEntryInfo_new(content_id, k.size, now)
                     EXCEPT !.access_count = k.access_count]
    IN  /\ tier_of(pol, determine_tier(info)).total_size + info.size
               <= TierMaxAdds * info.size
        /\ pol' = TieredPolicy_record_add(pol, info)
        /\ last' = [op |-> "tiered_record_add", arg |-> info, res |-> Ok("unit")]
        /\ UNCHANGED <<blobVars, metaVars, writerVars, taskVars>>

TieredSelectEvictions ==
    \E cold_values \in values_orders(pol.cold_tier.entries) :
        \E warm_values \in values_orders(pol.warm_tier.entries) :
            \E hot_values \in values_orders(pol.hot_tier.entries) :
                /\ last' = [op |-> "tiered_select_evictions", arg |-> "none",
                            res |-> Ok(TieredPolicy_select_evictions(
                                           pol, now, cold_values, warm_values, hot_values))]
                /\ UNCHANGED <<blobVars, metaVars, policyVars, writerVars, taskVars>>

\* the minute of min_ttl passes, once
TieredTick ==
    /\ now < 60
    /\ now' = now + 60
    /\ last' = [op |-> "tick", arg |-> "none", res |-> Ok("unit")]
    /\ UNCHANGED <<db, mem, blobVars, policyVars, writerVars, taskVars>>

InitTiered ==
    /\ pol = TieredPolicy_new(TieredTotalSize)
    /\ writers = [w \in Writers |-> NoWriter]
    /\ tasks = [t \in Tasks |-> NoTask]
    /\ now = 0
    /\ last = NoCall
    /\ db = EmptyMap
    /\ mem = LruCache_new(MemCapacity)
    /\ cfg \in {[compress |-> TRUE, compress_threshold |-> 3, verify_on_read |-> TRUE]}
    /\ fs = EmptyFs
    /\ faults = 0
    /\ procs = [p \in Procs |-> Idle]

NextTiered ==
    \/ \E id \in PolicyIds, k \in TierInputs : TieredRecordAdd(id, k)
    \/ TieredSelectEvictions
    \/ TieredTick

SpecTiered == InitTiered /\ [][NextTiered]_vars

(***************************************************************************)
(* CfkError and its two classifications.  An error is its variant and the  *)
(* fields the variant carries.                                             *)
(***************************************************************************)
ErrorTexts == {<< >>, <<"a">>, <<"a", "b">>}

RetryAfters == {None} \cup {Some(n) : n \in 0 .. MaxRetryAfter}

TextVariants ==
    {"NotFound", "AlreadyExists", "PermissionDenied", "NotADirectory", "NotAFile",
     "DirectoryNotEmpty", "InvalidPath", "Io", "Network", "AuthRequired",
     "AuthFailed", "QuotaExceeded", "Conflict", "Unsupported", "Serialization",
     "Cache", "BackendNotFound", "Other"}

UnitVariants ==
    {"TokenExpired", "OfflineNoCache", "ChecksumMismatch", "Timeout", "Cancelled"}

CfkError ==
    [variant : TextVariants, fields : {<<s>> : s \in ErrorTexts}]
        \cup [variant : UnitVariants, fields : {<< >>}]
        \cup [variant : {"RateLimited"}, fields : {<<r>> : r \in RetryAfters}]
        \cup [variant : {"ProviderApi"}, fields : ErrorTexts \X ErrorTexts]

\* is_retryable without the expired token
is_retryable_without_token(e) ==
    \/ e.variant = "Network"
    \/ e.variant = "RateLimited"
    \/ e.variant = "Timeout"

is_retryable(e) ==
    \/ e.variant = "Network"
    \/ e.variant = "RateLimited"
    \/ e.variant = "Timeout"
    \/ e.variant = "TokenExpired"

is_auth_error(e) ==
    \/ e.variant = "AuthRequired"
    \/ e.variant = "AuthFailed"
    \/ e.variant = "TokenExpired"

IsRetryable(e) ==
    /\ last' = [op |-> "is_retryable", arg |-> e, res |-> is_retryable(e)]
    /\ UNCHANGED <<blobVars, metaVars, policyVars, writerVars, taskVars>>

IsAuthError(e) ==
    /\ last' = [op |-> "is_auth_error", arg |-> e, res |-> is_auth_error(e)]
    /\ UNCHANGED <<blobVars, metaVars, policyVars, writerVars, taskVars>>

InitError ==
    /\ last = NoCall
    /\ db = EmptyMap
    /\ mem = LruCache_new(MemCapacity)
    /\ now = 0
    /\ cfg \in {[compress |-> TRUE, compress_threshold |-> 3, verify_on_read |-> TRUE]}
    /\ fs = EmptyFs
    /\ faults = 0
    /\ procs = [p \in Procs |-> Idle]
    /\ pol = IdlePolicy
    /\ writers = [w \in Writers |-> NoWriter]
    /\ tasks = [t \in Tasks |-> NoTask]

NextError ==
    \/ \E e \in CfkError : IsRetryable(e)
    \/ \E e \in CfkError : IsAuthError(e)

SpecError == InitError /\ [][NextError]_vars

(***************************************************************************)
(* put_entry, get_entry and invalidate of concurrent callers, a step for   *)
(* every access to the sled tree and for every section under the write     *)
(* lock of the memory LRU.  `tasks` holds each caller's position, the path *)
(* it was called with and the record it carries.  `last` names the latest  *)
(* step among those of put_entry and invalidate: it is "invalidate" when   *)
(* an invalidate has returned and no step of a put_entry was taken since   *)
(* that invalidate began.                                                  *)
(***************************************************************************)
NoCaller ==
    [pc |-> "idle", op |-> "none", path |-> PathDF, cached |-> None, res |-> Ok("none")]

returns(task, r) == [task EXCEPT !.pc = "idle", !.cached = None, !.res = r]

\* put_entry up to db.insert
PutEntryInsert(t, entry) ==
    LET cached == from_entry(entry, Some(DefaultTtl), now)
        key == to_string(entry.path)
    IN  /\ tasks[t].pc = "idle"
        /\ db' = map_insert(db, entry_key(key), to_vec(cached))
        /\ tasks' = [tasks EXCEPT ![t] = [pc |-> "put_memory", op |-> "put_entry",
                                          path |-> entry.path, cached |-> Some(cached),
                                          res |-> Ok("none")]]
        /\ last' = [op |-> "put_entry", arg |-> entry.path, res |-> Ok("none")]
        /\ UNCHANGED <<mem, now, blobVars, policyVars, writerVars>>

\* "Update memory cache"
PutEntryMemory(t) ==
    /\ tasks[t].pc = "put_memory"
    /\ mem' = lru_put(mem, to_string(tasks[t].path), tasks[t].cached.val)
    /\ tasks' = [tasks EXCEPT ![t] = returns(@, Ok("unit"))]
    /\ last' = [op |-> "put_entry", arg |-> tasks[t].path, res |-> Ok("unit")]
    /\ UNCHANGED <<db, now, blobVars, policyVars, writerVars>>

\* "Check memory cache first"
GetEntryMemory(t, path) ==
    LET hit == lru_get(mem, to_string(path))
        called == [pc |-> "get_db", op |-> "get_entry", path |-> path,
                   cached |-> None, res |-> Ok("none")]
    IN  /\ tasks[t].pc = "idle"
        /\ mem' = hit.cache
        /\ tasks' = [tasks EXCEPT ![t] =
                        IF hit.val.some /\ ~is_expired(hit.val.val, now)
                        THEN returns(called, Ok(Some(hit.val.val)))
                        ELSE called]
        /\ UNCHANGED <<last, db, now, blobVars, policyVars, writerVars>>

\* "Check database": db.get and the decoding of what it returned
GetEntryDb(t) ==
    LET db_key == entry_key(to_string(tasks[t].path))
    IN  /\ tasks[t].pc = "get_db"
        /\ tasks' = [tasks EXCEPT ![t] =
                        IF db_key \notin DOMAIN db THEN returns(@, Ok(None))
                        ELSE IF is_expired(from_slice(db[db_key]), now)
                        THEN [@ EXCEPT !.pc = "get_remove"]
                        ELSE [@ EXCEPT !.pc = "get_memory",
                                       !.cached = Some(from_slice(db[db_key]))]]
        /\ UNCHANGED <<last, db, mem, now, blobVars, policyVars, writerVars>>

\* "Remove expired entry"
GetEntryRemove(t) ==
    /\ tasks[t].pc = "get_remove"
    /\ db' = map_remove(db, entry_key(to_string(tasks[t].path)))
    /\ tasks' = [tasks EXCEPT ![t] = returns(@, Ok(None))]
    /\ UNCHANGED <<last, mem, now, blobVars, policyVars, writerVars>>

\* "Add to memory cache"
GetEntryFill(t) ==
    /\ tasks[t].pc = "get_memory"
    /\ mem' = lru_put(mem, to_string(tasks[t].path), tasks[t].cached.val)
    /\ tasks' = [tasks EXCEPT ![t] = returns(@, Ok(tasks[t].cached))]
    /\ UNCHANGED <<last, db, now, blobVars, policyVars, writerVars>>

\* invalidate up to db.remove
InvalidateRemove(t, path) ==
    /\ tasks[t].pc = "idle"
    /\ db' = map_remove(db, entry_key(to_string(path)))
    /\ tasks' = [tasks EXCEPT ![t] = [pc |-> "invalidate_memory", op |-> "invalidate",
                                      path |-> path, cached |-> None, res |-> Ok("none")]]
    /\ last' = [op |-> "invalidating", arg |-> path, res |-> Ok("none")]
    /\ UNCHANGED <<mem, now, blobVars, policyVars, writerVars>>

\* memory_cache.write().await.pop(&key), and the return of invalidate
InvalidatePop(t) ==
    /\ tasks[t].pc = "invalidate_memory"
    /\ mem' = lru_pop(mem, to_string(tasks[t].path))
    /\ tasks' = [tasks EXCEPT ![t] = returns(@, Ok("unit"))]
    /\ last' = IF last.op = "invalidating" /\ last.arg = tasks[t].path
               THEN [op |-> "invalidate", arg |-> tasks[t].path, res |-> Ok("unit")]
               ELSE last
    /\ UNCHANGED <<db, now, blobVars, policyVars, writerVars>>

\* a second passes
ClockTick ==
    /\ now < MaxTime
    /\ now' = now + 1
    /\ UNCHANGED <<last, db, mem, blobVars, policyVars, writerVars, taskVars>>

CallEntries == {FileF, DirectoryF, FileColon}
CallPaths == {PathDF, PathDColon}

InitCalls ==
    /\ db = EmptyMap
    /\ mem = LruCache_new(MemCapacity)
    /\ now = 0
    /\ last = NoCall
    /\ tasks = [t \in Tasks |-> NoCaller]
    /\ cfg \in {[compress |-> TRUE, compress_threshold |-> 3, verify_on_read |-> TRUE]}
    /\ fs = EmptyFs
    /\ faults = 0
    /\ procs = [p \in Procs |-> Idle]
    /\ pol = IdlePolicy
    /\ writers = [w \in Writers |-> NoWriter]

NextCalls ==
    \/ \E t \in Tasks, e \in CallEntries : PutEntryInsert(t, e)
    \/ \E t \in Tasks : PutEntryMemory(t)
    \/ \E t \in Tasks, p \in CallPaths : GetEntryMemory(t, p)
    \/ \E t \in Tasks : GetEntryDb(t)
    \/ \E t \in Tasks : GetEntryRemove(t)
    \/ \E t \in Tasks : GetEntryFill(t)
    \/ \E t \in Tasks, p \in CallPaths : InvalidateRemove(t, p)
    \/ \E t \in Tasks : InvalidatePop(t)
    \/ ClockTick

SpecCalls == InitCalls /\ [][NextCalls]_vars

(***************************************************************************)
(* Properties of the blob store.                                           *)
(***************************************************************************)
\* C1: CAS round trip.  In a store whose files were written only by put, get
\* of the id put returned for a body returns exactly that body, for every
\* body and every configuration, compressed or raw.
C1_RoundTrip ==
    last.op = "get" =>
        \A b \in Bodies : last.arg = hash(b) => last.res = Ok(b)

\* C2: put publishes no partial file.  In every interleaving of puts (two of
\* the same body among them, and puts cancelled midway) and gets, a file at
\* the final path of an id is a complete storage form of the body, raw or
\* compressed, and a get of the id returns NotFound or the body.
C2_NoPartialFile ==
    /\ \A b \in RaceBodies :
          exists(fs, hash(b)) =>
              fs[storage_path(hash(b))] \in {b, compress_prepend_size(b)}
    /\ \A b \in RaceBodies :
          (last.op = "get" /\ last.arg = hash(b)) => last.res \in {NotFound(hash(b)), Ok(b)}

\* C3: two concurrent puts of the same body both return Ok with the id of the
\* body, and afterwards get of the id returns the body.
C3_ConcurrentPut ==
    \A p \in Procs, q \in Procs :
        (p # q /\ procs[p].pc = "done" /\ procs[q].pc = "done"
              /\ procs[p].data = procs[q].data) =>
            /\ procs[p].res = Ok(hash(procs[p].data))
            /\ procs[q].res = Ok(hash(procs[p].data))
            /\ get(fs, cfg, hash(procs[p].data)) = Ok(procs[p].data)

RECURSIVE sum_sizes(_, _)
sum_sizes(f, ids) ==
    IF ids = {} THEN 0
    ELSE LET id == CHOOSE x \in ids : TRUE
         IN  size(f, id).val + sum_sizes(f, ids \ {id})

\* the stored objects holding the id
objects_of(f, content_id) == {p \in DOMAIN f : from_hex(p) = Ok(content_id)}

\* C4: deduplication.  Every put of the same bytes returns the same id, the
\* id of the bytes; after it exactly one stored object holds that id and list()
\* has it; a put whose id is already stored leaves the store directory as it is.
C4_Dedup ==
    [][last'.op = "put" =>
        LET content_id == hash(last'.arg)
        IN  /\ last'.res = Ok(content_id)
            /\ (last.op = "put" /\ last.arg = last'.arg => last'.res = last.res)
            /\ content_id \in list(fs')
            /\ Cardinality(objects_of(fs', content_id)) = 1
            /\ (exists(fs, content_id) => fs' = fs)]_vars

\* a put has returned for a body whose stored file is not the form put writes:
\* the object was there, altered, and put left it alone
C4_Witness ==
    /\ last.op = "put"
    /\ exists(fs, hash(last.arg))
    /\ fs[storage_path(hash(last.arg))] # stored_data(cfg, last.arg)

\* C5: with verify_on_read, get never returns bytes whose hash is not the id
\* asked for; when the stored file decodes to bytes with another hash, get
\* returns CorruptedContent(id).
C5_VerifyOnRead ==
    (last.op = "get" /\ cfg.verify_on_read) =>
        /\ (last.res.tag = "Ok" => hash(last.res.val) = last.arg)
        /\ (exists(fs, last.arg) /\ hash(try_decompress(fs[storage_path(last.arg)])) # last.arg
                => last.res = CorruptedContent(last.arg))

\* get has refused an object that was altered after put stored it
C5_Witness ==
    /\ last.op = "get"
    /\ cfg.verify_on_read
    /\ faults > 0
    /\ last.res = CorruptedContent(last.arg)
    /\ fs[storage_path(last.arg)] # stored_data(cfg, last.arg.blake3)

\* C6: gc(keep) deletes exactly the stored ids outside keep.  Afterwards
\* list() is the list() of before intersected with keep, the file of every
\* kept id is as it was (get returns what it returned before), get of every
\* deleted id is NotFound, and the result is the sum of size(id) over the
\* deleted ids.
C6_Gc ==
    [][last'.op = "gc" =>
        LET keep == last'.arg
            deleted == list(fs) \ keep
        IN  /\ list(fs') = list(fs) \cap keep
            /\ \A id \in list(fs) \cap keep :
                   /\ fs'[storage_path(id)] = fs[storage_path(id)]
                   /\ get(fs', cfg', id) = get(fs, cfg, id)
            /\ \A id \in deleted : get(fs', cfg', id) = NotFound(id)
            /\ last'.res = Ok(sum_sizes(fs, deleted))]_vars

\* gc has deleted an object (freeing its bytes) and kept another
C6_Witness ==
    /\ last.op = "gc"
    /\ last.res.val > 0
    /\ list(fs) # {}
    /\ list(fs) \subseteq last.arg

\* C7: delete(id) succeeds whether or not the object exists, as often as it
\* is repeated; after it exists(id) is false and get(id) is NotFound; the file
\* of every other path is as it was.
C7_DeleteIdempotent ==
    [][last'.op = "delete" =>
        LET content_id == last'.arg
        IN  /\ last'.res = Ok("unit")
            /\ ~exists(fs', content_id)
            /\ get(fs', cfg', content_id) = NotFound(content_id)
            /\ DOMAIN fs' = DOMAIN fs \ {storage_path(content_id)}
            /\ \A p \in DOMAIN fs' : fs'[p] = fs[p]]_vars

\* a delete has returned while other objects are stored and the object it
\* names is not there
C7_Witness ==
    /\ last.op = "delete"
    /\ ~exists(fs, last.arg)
    /\ list(fs) # {}

(***************************************************************************)
(* Properties of the metadata cache.                                       *)
(***************************************************************************)
\* the records the two tiers hold for a path
held_in_memory(path) ==
    IF to_string(path) \in DOMAIN mem.map THEN {mem.map[to_string(path)]} ELSE {}
held_in_db(path) ==
    IF entry_key(to_string(path)) \in DOMAIN db
    THEN {from_slice(db[entry_key(to_string(path))])} ELSE {}

\* C8: TTL expiry.  A get_entry(path) that runs when the wall clock is past
\* the expires_at of the record cached for the path (in the memory tier, in
\* the durable tier, or in both) returns absent, and after it the durable
\* store holds no entry:<path> record; a get_entry that runs while the clock
\* is not past the expires_at of the record the durable store holds returns
\* that record, the one that was put.
C8_TtlExpiry ==
    [][last'.op = "get_entry" =>
        LET path == last'.arg
            held == held_in_memory(path) \cup held_in_db(path)
        IN  /\ (held # {} /\ \A e \in held : now > e.expires_at.val) =>
                   /\ last'.res = Ok(None)
                   /\ entry_key(to_string(path)) \notin DOMAIN db'
            /\ \A e \in held_in_db(path) :
                   now <= e.expires_at.val =>
                       /\ last'.res = Ok(Some(e))
                       /\ e.path = to_string(path)]_vars

\* get_entry has reported a record absent that the memory tier still holds,
\* expired, and the durable store holds it no more
C8_Witness ==
    /\ last.op = "get_entry"
    /\ last.res = Ok(None)
    /\ \E e \in held_in_memory(last.arg) : is_expired(e, now)
    /\ held_in_db(last.arg) = {}

\* C9: invalidation cascade.  Right after invalidate_directory(p), get_entry
\* of every descendant of p is absent and get_directory(p) is absent.
C9_InvalidationCascade ==
    last.op = "invalidate_directory" =>
        /\ \A c \in MetaPaths :
               is_descendant(c, last.arg) => get_entry(State, now, c).res = Ok(None)
        /\ get_directory(State, now, last.arg).res = Ok(None)

\* C10: after invalidate(path) neither tier holds the entry of the path, the
\* next get_entry(path) is absent, and the records of every other path are
\* as they were in both tiers.
C10_Invalidate ==
    [][last'.op = "invalidate" =>
        LET key == to_string(last'.arg)
        IN  /\ entry_key(key) \notin DOMAIN db'
            /\ key \notin DOMAIN mem'.map
            /\ \A i \in 1 .. Len(mem'.order) : mem'.order[i] # key
            /\ get_entry([db |-> db', mem |-> mem'], now', last'.arg).res = Ok(None)
            /\ DOMAIN db' = DOMAIN db \ {entry_key(key)}
            /\ \A k \in DOMAIN db' : db'[k] = db[k]
            /\ DOMAIN mem'.map = DOMAIN mem.map \ {key}
            /\ \A k \in DOMAIN mem'.map : mem'.map[k] = mem.map[k]]_vars

\* invalidate has returned for a path while another path is cached in both
\* tiers and the path it names is cached in neither
C10_Witness ==
    /\ last.op = "invalidate"
    /\ held_in_memory(last.arg) \cup held_in_db(last.arg) = {}
    /\ \E q \in MetaPaths : held_in_memory(q) # {} /\ held_in_db(q) # {}

\* C11: right after clear_backend(b), get_entry and get_directory are absent
\* for every path of backend b.
C11_ClearBackend ==
    last.op = "clear_backend" =>
        \A p \in MetaPaths :
            p.backend = last.arg =>
                /\ get_entry(State, now, p).res = Ok(None)
                /\ get_directory(State, now, p).res = Ok(None)

(***************************************************************************)
(* Properties of the eviction policy engine.                               *)
(***************************************************************************)
\* record_remove of every id select_evictions returned
RECURSIVE apply_removals(_, _)
apply_removals(p, evicted) ==
    IF evicted = << >> THEN p
    ELSE apply_removals(record_remove(p, Head(evicted)), Tail(evicted))

\* the entries of min_ttl's immunity: younger than min_ttl by `created`
is_young(p, info, t) == t - info.created < p.config.min_ttl

\* the tracked entries an eviction may take
eligible(p, t) == {id \in DOMAIN p.entries : ~is_young(p, p.entries[id], t)}

\* the ids of a list of evictions
ids_of(evicted) == {evicted[i] : i \in 1 .. Len(evicted)}

C13_TargetUtilization ==
    (/\ last.op = "select_evictions"
     /\ needs_eviction(pol)
     /\ eligible(pol, now) = DOMAIN pol.entries) =>
        LET after == apply_removals(pol, last.res.val.evicted)
        IN  /\ after.total_size
                   <= (pol.config.max_size * pol.config.target_utilization.num)
                          \div pol.config.target_utilization.den
            /\ Cardinality(DOMAIN after.entries)
                   <= (pol.config.max_entries * pol.config.target_utilization.num)
                          \div pol.config.target_utilization.den

\* `a` comes strictly before `b` in the order of the policy
strictly_before(policy, a, b) ==
    CASE policy = "Lru" -> a.last_accessed < b.last_accessed
      [] policy = "Fifo" -> a.created < b.created
      [] policy = "SmallestFirst" -> a.size < b.size
      [] policy = "LargestFirst" -> a.size > b.size

\* C14: policy lawfulness.  Under Lru, Fifo, SmallestFirst and LargestFirst
\* the list select_evictions returns is in the order of the policy, and no
\* eligible entry left out comes strictly before a selected one.
C14_PolicyLawfulness ==
    (/\ last.op = "select_evictions"
     /\ pol.config.policy \in {"Lru", "Fifo", "SmallestFirst", "LargestFirst"}) =>
        LET evicted == last.res.val.evicted
        IN  /\ \A i, j \in 1 .. Len(evicted) :
                   i < j => ~strictly_before(pol.config.policy, pol.entries[evicted[j]],
                                             pol.entries[evicted[i]])
            /\ \A out \in eligible(pol, now) \ ids_of(evicted) :
                   \A i \in 1 .. Len(evicted) :
                       ~strictly_before(pol.config.policy, pol.entries[out],
                                        pol.entries[evicted[i]])

\* select_evictions has taken one of two eligible entries that the order of
\* the policy tells apart, and left the other
C14_Witness ==
    /\ last.op = "select_evictions"
    /\ pol.config.policy \in {"Lru", "Fifo", "SmallestFirst", "LargestFirst"}
    /\ \E id \in ids_of(last.res.val.evicted) :
           \E out \in eligible(pol, now) \ ids_of(last.res.val.evicted) :
               strictly_before(pol.config.policy, pol.entries[id], pol.entries[out])

\* C15: min_ttl immunity.  select_evictions returns the id of no entry whose
\* age, now minus created, is less than min_ttl seconds.
C15_MinTtlImmunity ==
    last.op = "select_evictions" =>
        \A id \in ids_of(last.res.val.evicted) :
            /\ id \in DOMAIN pol.entries
            /\ now - pol.entries[id].created >= pol.config.min_ttl

\* under pressure select_evictions has taken an old entry and passed over a
\* young one
C15_Witness ==
    /\ last.op = "select_evictions"
    /\ last.res.val.evicted # << >>
    /\ \E id \in DOMAIN pol.entries :
           /\ now - pol.entries[id].created < pol.config.min_ttl
           /\ id \notin ids_of(last.res.val.evicted)
    /\ needs_eviction(apply_removals(pol, last.res.val.evicted))

\* C16: under Lfu, of two eligible entries with the same access_count the one
\* accessed longer ago is selected first: the other is not selected without
\* it, nor ahead of it.
C16_LfuTieBreak ==
    (last.op = "select_evictions" /\ pol.config.policy = "Lfu") =>
        LET evicted == last.res.val.evicted
        IN  \A older, newer \in eligible(pol, now) :
                (/\ pol.entries[older].access_count = pol.entries[newer].access_count
                 /\ pol.entries[older].last_accessed < pol.entries[newer].last_accessed) =>
                    /\ newer \in ids_of(evicted) => older \in ids_of(evicted)
                    /\ \A i, j \in 1 .. Len(evicted) :
                           evicted[i] = older /\ evicted[j] = newer => i < j

(***************************************************************************)
(* Properties of the streaming writer and of temp files.                   *)
(***************************************************************************)
\* C17: streaming ingest equals one-shot ingest.  When finish has returned an
\* id, the id is the hash of the concatenation of the chunks written, and get
\* of the id returns that concatenation.
C17_StreamingIngest ==
    \A w \in Writers :
        (writers[w].pc = "done" /\ writers[w].res.tag = "Ok") =>
            /\ writers[w].res.val = hash(writers[w].hasher)
            /\ get(fs, cfg, writers[w].res.val) = Ok(writers[w].hasher)

\* C18: finish publishes by rename only.  Whatever finish and a crash in the
\* middle of it have done so far, a file at the final path of an id is a
\* complete storage form, raw or compressed, of the body of the id: no get
\* reads a partly written object.
C18_FinishPublishesByRename ==
    \A p \in DOMAIN fs :
        p.ext = "" => fs[p] \in {p.cid.blake3, compress_prepend_size(p.cid.blake3)}

\* C19: when put or finish has returned, with success or with an Io error,
\* the temp file it created is no longer in the store directory.
C19_TempFilesReleased ==
    /\ \A w \in Writers :
           writers[w].pc = "done" => writers[w].temp_path \cap DOMAIN fs = {}
    /\ last.op = "put" =>
           ~path_exists(fs, with_extension_tmp(storage_path(hash(last.arg))))

\* C20: right after gc(keep) no temp file is left under the store root,
\* neither the <name>.tmp of an aborted put nor the upload_<tag> of an
\* abandoned writer.
C20_GcSweepsTempFiles ==
    last.op = "gc" => \A p \in DOMAIN fs : p.ext = ""

\* C21: two BlobWriters that are open at the same time have distinct temp
\* files, and the object a finish has published holds the bytes of its own
\* writer, raw or compressed.
C21_UniqueTempFile ==
    /\ \A v, w \in Writers :
           (v # w /\ writers[v].pc = "open" /\ writers[w].pc = "open") =>
               writers[v].temp_path # writers[w].temp_path
    /\ \A w \in Writers :
           (writers[w].pc = "done" /\ writers[w].res.tag = "Ok") =>
               fs[storage_path(writers[w].res.val)]
                   \in {writers[w].hasher, compress_prepend_size(writers[w].hasher)}

\* C22: mixed-corpus read.  A body whose file was written by a store with one
\* setting of `compress` is returned unchanged by get on a store over the
\* same directory with the other setting.
C22_MixedCorpus ==
    \A b \in Bodies, c \in Configs :
        ( /\ c.compress # cfg.compress
          /\ path_exists(fs, storage_path(hash(b)))
          /\ fs[storage_path(hash(b))] = stored_data(c, b)
          /\ last.op = "get"
          /\ last.arg = hash(b) ) => last.res = Ok(b)

\* C23: a read that failed with CorruptedContent leaves no object of that id
\* in the store: right after get(cid) returned CorruptedContent, exists(cid)
\* is false.
C23_CorruptedContentDeleted ==
    (last.op = "get" /\ last.res = CorruptedContent(last.arg)) =>
        ~exists(fs, last.arg)

\* C24: racing deletions are tolerated.  In every interleaving of delete and
\* gc calls by two callers, every call that has come to its end returned
\* success.
C24_RacingDeletions ==
    \A t \in Tasks : tasks[t].pc = "done" => tasks[t].res.tag = "Ok"

\* C25: in every reachable state of the store directory, states left by a
\* put that was aborted midway included, total_size() is the sum of
\* size(cid) over the ids list() returns.
C25_TotalSize ==
    total_size(fs) = Ok(sum_sizes(fs, list(fs)))

(***************************************************************************)
(* Properties of the metadata cache, continued.                            *)
(***************************************************************************)
\* C26: a clock rewind cannot unexpire a record.  When the wall clock is
\* stepped back, a record that was expired before the step (the clock had
\* passed its expires_at, in whichever tier holds it) is not returned by a
\* get_entry after the step.
C26_ClockRewind ==
    [][now' < now =>
        \A p \in MetaPaths :
            LET held == held_in_memory(p) \cup held_in_db(p)
            IN  (held # {} /\ \A e \in held : is_expired(e, now)) =>
                    get_entry([db |-> db', mem |-> mem'], now', p).res = Ok(None)]_vars

\* the path-string of a child of a listing as get_directory reads it back
child_path(backend_id, child) ==
    LET parsed == parse_uri(child)
    IN  IF parsed.some THEN parsed.val ELSE VirtualPath_new(backend_id, child)

\* the entries of the children, of those in `children`, for which get_entry
\* is present in the state st at time t
RECURSIVE present_children(_, _, _, _)
present_children(st, t, backend_id, children) ==
    IF children = << >> THEN << >>
    ELSE LET r == get_entry(st, t, child_path(backend_id, Head(children)))
         IN  (IF r.res.val.some THEN <<to_entry(r.res.val.val)>> ELSE << >>)
                 \o present_children(st, t, backend_id, Tail(children))

\* get_directory returns exactly the children for which get_entry is present
skips_missing_children ==
    (last'.op = "get_directory" /\ last'.res.val.some) =>
        LET cached == from_slice(db[dir_key(last'.arg)])
        IN  last'.res.val.val =
                present_children(State, now, cached.backend_id, cached.children)

no_slash(s) == \A i \in 1 .. Len(s) : s[i] # "/"

\* a listing of paths with backend ids free of '/', no path given two kinds
plain_listing(es) ==
    /\ \A i \in 1 .. Len(es) : no_slash(es[i].path.backend)
    /\ \A i, j \in 1 .. Len(es) : es[i].path = es[j].path => es[i].kind = es[j].kind

\* C27 as claimed: right after put_directory(p, entries), get_directory(p)
\* returns one Entry per child, in the stored order, with the same path and
\* kind; and whenever get_directory returns a listing, it consists of exactly
\* the children for which get_entry is present.
C27_DirectoryRoundTrip ==
    [][/\ last'.op = "put_directory" =>
              get_directory([db |-> db', mem |-> mem'], now', last'.arg[1]).res
                  = Ok(Some(last'.arg[2]))
       /\ skips_missing_children]_vars

\* C27, amended: the same for a listing in which every backend id is free of
\* '/' and no path appears with two kinds.
C27_DirectoryRoundTripPlain ==
    [][/\ (last'.op = "put_directory" /\ plain_listing(last'.arg[2])) =>
              get_directory([db |-> db', mem |-> mem'], now', last'.arg[1]).res
                  = Ok(Some(last'.arg[2]))
       /\ skips_missing_children]_vars

\* get_directory has returned a listing of one entry for a directory stored
\* with two children: the other child was skipped
C27_Witness ==
    /\ last.op = "get_directory"
    /\ last.res.val.some
    /\ Len(last.res.val.val) = 1
    /\ dir_key(last.arg) \in DOMAIN db
    /\ Len(from_slice(db[dir_key(last.arg)]).children) = 2

built(call) == IF call.op = "parse_uri" THEN {} ELSE produced(call)

ends_with_slash(s) == s # << >> /\ s[Len(s)] = "/"

\* to_uri ends with '/' for the root only, and parse_uri is absent for a
\* string without the scheme
uri_form ==
    /\ \A vp \in built(last) : ends_with_slash(to_uri(vp)) <=> vp.segments = << >>
    /\ (last.op = "parse_uri" /\ ~starts_with(last.arg, Scheme)) => last.res = None

\* C29 as claimed: for every path built by new, root, join or parent,
\* parse_uri(to_uri(vp)) is present and equal to vp; to_uri ends with '/' only
\* for the root; parse_uri is absent for a string that does not start with
\* cfk://.
C29_UriRoundTrip ==
    /\ \A vp \in built(last) : parse_uri(to_uri(vp)) = Some(vp)
    /\ uri_form

\* C29, amended: the same, the round trip for every such path whose backend
\* id is free of '/'.
C29_UriRoundTripPlain ==
    /\ \A vp \in built(last) : no_slash(vp.backend) => parse_uri(to_uri(vp)) = Some(vp)
    /\ uri_form

\* parse_uri has been given the URI of a path of two segments and has
\* returned that path
C29_Witness ==
    /\ last.op = "parse_uri"
    /\ last.res.some
    /\ Len(last.res.val.segments) = 2
    /\ no_slash(last.res.val.backend)
    /\ last.arg = to_uri(last.res.val)

well_formed(vp) ==
    \A i \in 1 .. Len(vp.segments) :
        vp.segments[i] \notin {<< >>, <<".">>, <<".", ".">>}

\* C30: every path produced by new, parse_uri, root, join or parent has only
\* segments that are non-empty and are neither "." nor ".."; join, which
\* resolves ".." and skips ".", adds no such segment to a path.
C30_SegmentWellFormed ==
    /\ \A vp \in produced(last) : well_formed(vp)
    /\ last.op = "join" =>
           \A i \in (Len(last.arg[1].segments) + 1) .. Len(last.res.segments) :
               last.res.segments[i] \notin {<< >>, <<".">>, <<".", ".">>}

(***************************************************************************)
(* Properties of the memory tier and of the tiers under concurrency.       *)
(***************************************************************************)
\* C31: the memory LRU never holds more records than the configured
\* MetadataCacheConfig.max_entries, and its order lists exactly the keys it
\* holds, least recently used first.
C31_MemoryBudget ==
    /\ Cardinality(DOMAIN mem.map) <= MaxMemoryEntries
    /\ {mem.order[i] : i \in 1 .. Len(mem.order)} = DOMAIN mem.map

(***************************************************************************)
(* Properties of the TieredPolicy.                                         *)
(***************************************************************************)
\* C32: TieredPolicy::record_add puts an entry in Hot iff access_count > 10
\* and size < 1 MiB; otherwise in Warm iff access_count > 2 or size < 10 MiB;
\* otherwise in Cold; the entry is recorded in that tier and the two other
\* tiers are left as they were.
C32_TierAssignment ==
    [][last'.op = "tiered_record_add" =>
        LET info == last'.arg
            id == info.content_id
            hot == info.access_count > 10 /\ info.size < 1048576
            warm == ~hot /\ (info.access_count > 2 \/ info.size < 10485760)
            cold == ~hot /\ ~warm
        IN  /\ hot => /\ id \in DOMAIN pol'.hot_tier.entries
                      /\ pol'.hot_tier.entries[id] = info
                      /\ pol'.warm_tier = pol.warm_tier /\ pol'.cold_tier = pol.cold_tier
            /\ warm => /\ id \in DOMAIN pol'.warm_tier.entries
                       /\ pol'.warm_tier.entries[id] = info
                       /\ pol'.hot_tier = pol.hot_tier /\ pol'.cold_tier = pol.cold_tier
            /\ cold => /\ id \in DOMAIN pol'.cold_tier.entries
                       /\ pol'.cold_tier.entries[id] = info
                       /\ pol'.hot_tier = pol.hot_tier /\ pol'.warm_tier = pol.warm_tier]_vars

\* record_add has put an entry in the hot tier while the warm and the cold
\* tier hold entries too
C32_Witness ==
    /\ last.op = "tiered_record_add"
    /\ last.arg.content_id \in DOMAIN pol.hot_tier.entries
    /\ pol.hot_tier.entries[last.arg.content_id] = last.arg
    /\ DOMAIN pol.warm_tier.entries # {}
    /\ DOMAIN pol.cold_tier.entries # {}


\* the tiers that track a CID
tiers_tracking(id) ==
    {tier \in {"Hot", "Warm", "Cold"} : id \in DOMAIN tier_of(pol, tier).entries}

\* C39: after any sequence of record_add, also of one CID with different
\* access counts or sizes, each CID is tracked in at most one tier, and the
\* per-tier lists of select_evictions name no CID twice between them.
C39_TierDisjoint ==
    /\ \A id \in PolicyIds : Cardinality(tiers_tracking(id)) <= 1
    /\ last.op = "tiered_select_evictions" =>
           \A i, j \in 1 .. 3 :
               i # j =>
                   \A m \in 1 .. Len(last.res.val[i].evicted) :
                       \A n \in 1 .. Len(last.res.val[j].evicted) :
                           last.res.val[i].evicted[m] # last.res.val[j].evicted[n]


(***************************************************************************)
(* Properties of the error classification.                                 *)
(***************************************************************************)
\* C33: is_retryable() is true exactly for Network, RateLimited, Timeout and
\* TokenExpired; is_auth_error() is true exactly for AuthRequired, AuthFailed
\* and TokenExpired; both are false for every other variant of CfkError,
\* whatever the fields of the error.
C33_ErrorClassification ==
    /\ last.op = "is_retryable" =>
           (last.res <=> last.arg.variant \in
                             {"Network", "RateLimited", "Timeout", "TokenExpired"})
    /\ last.op = "is_auth_error" =>
           (last.res <=> last.arg.variant \in
                             {"AuthRequired", "AuthFailed", "TokenExpired"})

\* the expired token has been classified as retryable
C33_Witness ==
    /\ last.op = "is_retryable"
    /\ last.arg.variant = "TokenExpired"
    /\ last.res


(***************************************************************************)
(* Properties of the accounting and of the selection of the CachePolicy.   *)
(***************************************************************************)
\* the sizes of the entries tracked under the ids, added up
RECURSIVE tracked_size(_, _)
tracked_size(entries, ids) ==
    IF ids = {} THEN 0
    ELSE LET id == CHOOSE x \in ids : TRUE
         IN  entries[id].size + tracked_size(entries, ids \ {id})

\* C34: after any sequence of record_add, record_access and record_remove,
\* record_add of a CID already tracked included, total_size is the sum of the
\* sizes of the tracked entries, 0 when none is tracked.
C34_Accounting ==
    pol.total_size = tracked_size(pol.entries, DOMAIN pol.entries)


\* the sizes of the entries a list of evictions names, added up
RECURSIVE evicted_size(_, _)
evicted_size(entries, evicted) ==
    IF evicted = << >> THEN 0
    ELSE entries[Head(evicted)].size + evicted_size(entries, Tail(evicted))

\* C38: the CIDs select_evictions returns are distinct and tracked,
\* size_freed is the sum of their sizes and count their number; without the
\* last one of them the size target or the count target would not be met;
\* nothing is returned when needs_eviction() is false; the call leaves
\* entries and total_size as they were.
C38_SelectsNoMoreThanNeeded ==
    [][last'.op = "select_evictions" =>
        LET r == last'.res.val
            n == Len(r.evicted)
            target_size == (pol.config.max_size * pol.config.target_utilization.num)
                               \div pol.config.target_utilization.den
            target_entries == (pol.config.max_entries * pol.config.target_utilization.num)
                                  \div pol.config.target_utilization.den
        IN  /\ pol' = pol
            /\ \A i \in 1 .. n : r.evicted[i] \in DOMAIN pol.entries
            /\ \A i, j \in 1 .. n : i # j => r.evicted[i] # r.evicted[j]
            /\ r.size_freed = evicted_size(pol.entries, r.evicted)
            /\ r.count = n
            /\ ~needs_eviction(pol) => n = 0 /\ r.size_freed = 0
            /\ n > 0 =>
                   LET before == SubSeq(r.evicted, 1, n - 1)
                   IN  \/ pol.total_size - evicted_size(pol.entries, before) > target_size
                       \/ Cardinality(DOMAIN pol.entries) - (n - 1) > target_entries]_vars

\* select_evictions has returned one of two tracked entries, both old
\* enough to be evicted
C38_Witness ==
    /\ last.op = "select_evictions"
    /\ Len(last.res.val.evicted) = 1
    /\ Cardinality(DOMAIN pol.entries) = 2
    /\ \A id \in DOMAIN pol.entries : is_candidate(pol, pol.entries[id], now)


(***************************************************************************)
(* Properties of put over an object that is already stored.                *)
(***************************************************************************)
\* C37: put repairs a damaged object.  Once put(b) has returned c, get(c)
\* returns b, also when the file at the path of c existed before the put with
\* contents that are not what put stored and do not decode to b; such a put
\* never leaves get(c) failing with CorruptedContent.
C37_PutRepairs ==
    [][(/\ last'.op = "put"
        /\ exists(fs, hash(last'.arg))
        /\ fs[storage_path(hash(last'.arg))] # stored_data(cfg, last'.arg)
        /\ try_decompress(fs[storage_path(hash(last'.arg))]) # last'.arg) =>
           /\ get(fs', cfg, hash(last'.arg)) = Ok(last'.arg)
           /\ get(fs', cfg, hash(last'.arg)) # CorruptedContent(hash(last'.arg))]_vars

\* C37, as the code has it: put(b) returns c and, when a file exists at the
\* path of c, leaves the store as it is, so that get(c) goes on returning what
\* it returned before the put, CorruptedContent included; when no file exists
\* there, put leaves the storage form of b at the path of c.
C37_PutKeepsExisting ==
    [][last'.op = "put" =>
        LET c == hash(last'.arg)
        IN  /\ last'.res = Ok(c)
            /\ exists(fs, c) =>
                   /\ fs'[storage_path(c)] = fs[storage_path(c)]
                   /\ get(fs', cfg, c) = get(fs, cfg, c)
            /\ ~exists(fs, c) =>
                   fs'[storage_path(c)] = stored_data(cfg, last'.arg)]_vars

\* put has returned for a body whose object was altered after it was stored,
\* and get of the id still fails with CorruptedContent
C37_Witness ==
    /\ last.op = "put"
    /\ faults > 0
    /\ cfg.verify_on_read
    /\ get(fs, cfg, hash(last.arg)) = CorruptedContent(hash(last.arg))
    /\ hash(try_decompress(stored_data(cfg, last.arg))) = hash(last.arg)


(***************************************************************************)
(* Properties of the metadata cache under concurrent callers.              *)
(***************************************************************************)
\* C35: an invalidation is not undone by a lookup in flight.  Once
\* invalidate(p) has returned and nothing was put since, a get_entry(p) that
\* starts returns absent, whatever get_entry(p) calls were running already.
C35_InvalidationStays ==
    last.op = "invalidate" => get_entry(State, now, last.arg).res = Ok(None)

\* C36: write-through agreement.  Whenever no call is in progress, every
\* unexpired record of the memory LRU is the record the durable store holds
\* under entry:<path>; so after two concurrent put_entry of one path both
\* tiers hold the same one of the two records.
C36_WriteThrough ==
    (\A t \in Tasks : tasks[t].pc = "idle") =>
        \A key \in DOMAIN mem.map :
            ~is_expired(mem.map[key], now) =>
                /\ entry_key(key) \in DOMAIN db
                /\ from_slice(db[entry_key(key)]) = mem.map[key]

====
